---- MODULE Spec2Model ----
(***************************************************************************)
(* ConversationService (client/src/lib/services/conversations.ts) over the *)
(* relational store whose tables and row-level policies are declared in    *)
(* the SQL migrations.                                                     *)
(*                                                                         *)
(* Every `await supabase...` of a service method is one step of the call:  *)
(* the store executes the statement atomically, and the method continues   *)
(* with the next statement at the call's next step.  A call slot holds the *)
(* method, its arguments, its locals and its position.  When the method    *)
(* has computed its return value the slot is "done"; Return hands the      *)
(* value to the caller and frees the slot.                                 *)
(*                                                                         *)
(* The acting user of a call is the signed-in user of the session: every   *)
(* caller passes its own user id, so the userId argument and the user the  *)
(* policies see through auth.email() are the same user.                    *)
(*                                                                         *)
(* Policies follow PostgreSQL's rules: a statement is checked against the  *)
(* policy of its command; UPDATE and DELETE with a WHERE filter touch only *)
(* rows that the SELECT policy shows as well; a command with no policy on  *)
(* a table with row level security enabled touches no row.  The row        *)
(* returned by insert(...).select() is taken to be the row written.        *)
(* Object fields and table columns are matched by meaning (conversationId  *)
(* and conversation_id are the same field).                                *)
(***************************************************************************)
EXTENDS Integers, Sequences, FiniteSets, TLC

\* ---------------------------------------------------------------- bounds
NumUsers == 2
MaxMsgs == 1
MaxConvs == 2
MaxFaults == 1
MaxCalls == 2
MaxStarted == 3
MaxChannels == 3
MaxEvents == 2
\* the sessions of other clients on the typing channels
MaxRemotes == 2

Users == 1..NumUsers
Calls == 1..MaxCalls
MsgIds == 1..MaxMsgs
Emojis == {"up", "heart"}
Contents == {"", "hi"}
Remotes == 1..MaxRemotes
Names == {"alice", "bob"}
Queries == {"", "hi", "no"}

\* ------------------------------------------------------- results of calls
Ok == "ok"
NoError == "none"
\* error.message of a failed store request
StoreError == "store: request failed"
RlsViolation == "store: new row violates row-level security policy"
UniqueViolation == "store: duplicate key value violates unique constraint"
NoRows == "store: no rows returned"
NotAuthView == "Not authorized to view participants in this conversation"
NotAuthSend == "Not authorized to send messages in this conversation"
NotAuthUpdate == "Not authorized to update this message"
NotAuthReact == "Not authorized to react to this message"
NotAuthUnreact == "Not authorized to remove reaction from this message"
FailedParticipants == "Failed to get participants"
FailedSend == "Failed to send message"
FailedUpdate == "Failed to update message"
FailedAdd == "Failed to add reaction"
FailedRemove == "Failed to remove reaction"
FailedCreate == "Failed to create conversation"
FailedAddParticipants == "Failed to add participants to conversation"
MessageNotFound == "Message not found"
NotAuthMessages == "Not authorized to view messages in this conversation"
NotAuthSearch == "Not authorized to search messages in this conversation"
NotAuthConversation == "Not authorized to view this conversation"
NotAuthReactions == "Not authorized to view reactions for this message"
FailedMessages == "Failed to get messages"
FailedSearch == "Failed to search messages"
FailedConversation == "Failed to get conversation"
FailedReactions == "Failed to get reactions"
ReactionExists == "Reaction already exists"

NotAuthorized == {NotAuthView, NotAuthSend, NotAuthUpdate, NotAuthReact, NotAuthUnreact}

VARIABLES
  conversations,    \* table conversations: the set of ids
  participants,     \* table conversation_participants: <<conversation_id, user_id>>
  messages,         \* table messages: rows [id, conversation_id, sender_id, content, is_liked]
  reactions,        \* table message_reactions: rows in insertion order
  reaction_counts,  \* table message_reaction_counts: message_id -> counts
  call,             \* the service calls in flight, per slot
  faultsLeft,       \* store requests that may still fail
  pre,              \* the tables as they were when the running call started
  started,          \* overlapping calls made so far
  channels,         \* RealtimeService.channels: channel name -> channel
  userId,           \* RealtimeService.userId (0: null)
  client,           \* the channels created: channel -> [name, state, from,
                    \* since, joinedOnce]; the
                    \* realtime client holds those whose state is not "closed"
  made,             \* channels created so far
  stream,           \* the changes of table messages, in the order of their commit
  invoked,          \* the calls of subscribers' callbacks, in the order made
  cleared,          \* history: the channels created when unsubscribeAll last ran
  presence,         \* the records tracked on the typing channels: owner ->
                    \* [conv, key, userId, username, typing]
  unsynced,         \* the typing channels with a presence sync event to handle
  heard,            \* channel -> the last call of its onTypingChange callback
  typingCall        \* history: the conversation of the last sendTyping call (0: none)

\* typing indicators: the presence channels and their callbacks
typevars == <<presence, unsynced, heard, typingCall>>

\* the state of RealtimeService and of the realtime client it uses
rtvars == <<channels, userId, client, made, stream, invoked, cleared, typevars>>

\* the tables and the ConversationService calls
storevars == <<conversations, participants, messages, reactions, reaction_counts,
               call, faultsLeft, pre, started>>

vars == <<storevars, rtvars>>

EmptyFn == [x \in {} |-> 0]

Merge(r, s) == [k \in DOMAIN r |-> IF k \in DOMAIN s THEN s[k] ELSE r[k]]

Max(S) == CHOOSE x \in S : \A y \in S : y <= x

\* SERIAL PRIMARY KEY
NextId(ids) == IF ids = {} THEN 1 ELSE Max(ids) + 1

\* seen, before and alone are history: the rows of the message, its counts
\* and whether no other call was in flight, at the time updateReactionCounts
\* read the rows
Idle ==
  [op |-> "none", pc |-> "idle", user |-> 0, conv |-> 0, msg |-> 0, emoji |-> "",
   content |-> "", patch |-> FALSE, pids |-> {}, counts |-> EmptyFn,
   result |-> NoError, faulted |-> "", seen |-> <<>>, before |-> EmptyFn,
   alone |-> FALSE, data |-> {}, query |-> ""]

NoSnapshot == [messages |-> {}, reactions |-> <<>>, reaction_counts |-> EmptyFn]

\* ------------------------------------------------------ row-level policies
IsParticipant(c, u) == <<c, u>> \in participants

ParticipantsSelectPolicy(auth, row) == row[2] = auth \/ IsParticipant(row[1], auth)

ParticipantsInsertPolicy(auth, row) == row[2] = auth

ParticipantsDeletePolicy(auth, row) == row[2] = auth

ConversationsSelectPolicy(auth, c) == IsParticipant(c, auth)

ConversationsInsertPolicy(auth, c) == TRUE

\* row level security is enabled and no policy is declared FOR DELETE
ConversationsDeletePolicy(auth, c) == FALSE

MessagesSelectPolicy(auth, m) == IsParticipant(m.conversation_id, auth)

MessagesInsertPolicyAnyone(auth, m) == m.sender_id = auth

MessagesInsertPolicy(auth, m) ==
  IsParticipant(m.conversation_id, auth) /\ m.sender_id = auth

MessagesUpdatePolicy(auth, m) == m.sender_id = auth

ReactionsSelectPolicy(auth, r) ==
  \E m \in messages : m.id = r.message_id /\ IsParticipant(m.conversation_id, auth)

ReactionsInsertPolicy(auth, r) ==
  /\ \E m \in messages : m.id = r.message_id /\ IsParticipant(m.conversation_id, auth)
  /\ r.user_id = auth

ReactionsDeletePolicy(auth, r) == r.user_id = auth

\* UNIQUE(message_id, user_id, emoji)
ReactionsUniqueOff(rows, r) == TRUE

ReactionsUnique(rows, r) == \A i \in 1..Len(rows) : rows[i] # r

\* ------------------------------------------------------------ pure helpers
\* getConversationParticipants: one select, then the membership test
GetConversationParticipants(conv, user, o) ==
  IF o = "throw" THEN [participants |-> {}, error |-> FailedParticipants]
  ELSE IF o = "error" THEN [participants |-> {}, error |-> StoreError]
  ELSE LET rows == {u \in Users : /\ <<conv, u>> \in participants
                                   /\ ParticipantsSelectPolicy(user, <<conv, u>>)}
       IN IF user \notin rows
          THEN [participants |-> {}, error |-> NotAuthView]
          ELSE [participants |-> rows, error |-> NoError]

\* the counts object of updateReactionCounts, built row by row
RECURSIVE FoldReactionsNoCount(_)
FoldReactionsNoCount(rows) ==
  IF rows = <<>> THEN EmptyFn
  ELSE LET prev == FoldReactionsNoCount(SubSeq(rows, 1, Len(rows) - 1))
           r == rows[Len(rows)]
       IN IF r.emoji \in DOMAIN prev
          THEN [prev EXCEPT ![r.emoji] =
                  [count |-> @.count, userIds |-> Append(@.userIds, r.user_id)]]
          ELSE (r.emoji :> [count |-> 1, userIds |-> <<r.user_id>>]) @@ prev

RECURSIVE FoldReactions(_)
FoldReactions(rows) ==
  IF rows = <<>> THEN EmptyFn
  ELSE LET prev == FoldReactions(SubSeq(rows, 1, Len(rows) - 1))
           r == rows[Len(rows)]
       IN IF r.emoji \in DOMAIN prev
          THEN [prev EXCEPT ![r.emoji] =
                  [count |-> @.count + 1, userIds |-> Append(@.userIds, r.user_id)]]
          ELSE (r.emoji :> [count |-> 1, userIds |-> <<r.user_id>>]) @@ prev

\* the rows of message m that the acting user may read
VisibleReactions(user, m) ==
  SelectSeq(reactions, LAMBDA r : r.message_id = m /\ ReactionsSelectPolicy(user, r))

\* the rows of message m
RowsOf(rows, m) == SelectSeq(rows, LAMBDA r : r.message_id = m)

\* the counts a reader finds for message m (no row: no counts)
CountsOf(m) == IF m \in DOMAIN reaction_counts THEN reaction_counts[m] ELSE EmptyFn

\* ---------------------------------------------------------- store requests
\* a store request answers, returns an error, or throws
Outcomes == IF faultsLeft > 0 THEN {"ok", "error", "throw"} ELSE {"ok"}

Spend(o) == faultsLeft' = IF o = "ok" THEN faultsLeft ELSE faultsLeft - 1

Mark(c, o) == IF o = "ok" THEN call[c].faulted ELSE call[c].pc

\* the call goes on to its next statement
Goto(c, o, pc, upd) ==
  call' = [call EXCEPT ![c] = Merge(Merge(@, upd), [pc |-> pc, faulted |-> Mark(c, o)])]

\* the call has its return value
Finish(c, o, res) ==
  call' = [call EXCEPT ![c] = Merge(@, [pc |-> "done", result |-> res, faulted |-> Mark(c, o)])]

Quiescent == \A c \in Calls : call[c].pc = "idle"

Snapshot == [messages |-> messages, reactions |-> reactions,
             reaction_counts |-> reaction_counts]


\* a caller invokes a method: the slot takes its arguments
Begin(c, args) ==
  /\ call[c].pc = "idle"
  /\ call' = [call EXCEPT ![c] = Merge(Idle, args)]
  /\ UNCHANGED <<conversations, participants, messages, reactions, reaction_counts,
                 faultsLeft>>

\* ------------------------------------------------------------- sendMessage
StartSend(c) ==
  /\ Cardinality(messages) < MaxMsgs
  /\ \E u \in Users, cv \in conversations, ct \in Contents :
       Begin(c, [op |-> "sendMessage", pc |-> "send_gcp",
                 user |-> u, conv |-> cv, content |-> ct])

\* the participant check with the membership test left out
SendCheckNoTest(c) ==
  /\ call[c].pc = "send_gcp"
  /\ \E o \in Outcomes :
       /\ Spend(o)
       /\ Goto(c, o, "send_insert", [conv |-> call[c].conv])
  /\ UNCHANGED <<conversations, participants, messages, reactions, reaction_counts, pre, started, rtvars>>

SendCheck(c) ==
  /\ call[c].pc = "send_gcp"
  /\ \E o \in Outcomes :
       /\ Spend(o)
       /\ LET g == GetConversationParticipants(call[c].conv, call[c].user, o)
          IN IF g.error # NoError THEN Finish(c, o, g.error)
             ELSE IF call[c].user \notin g.participants THEN Finish(c, o, NotAuthSend)
             ELSE Goto(c, o, "send_insert", [conv |-> call[c].conv])
  /\ UNCHANGED <<conversations, participants, messages, reactions, reaction_counts, pre, started, rtvars>>

\* the version of the row of message m after the changes of st: 1 as
\* inserted, one more for every update; 0 stands for no row
RowVersion(st, m) ==
  1 + Cardinality({i \in 1..Len(st) : st[i].msg = m /\ st[i].type = "UPDATE"})

\* the change notification of a committed change: its kind, the row before
\* the change (old) and the row after it (new)
Change(st, type, m, cv) ==
  [type |-> type, msg |-> m, conv |-> cv,
   old |-> IF type = "INSERT" THEN 0 ELSE RowVersion(st, m),
   new |-> IF type = "INSERT" THEN 1
           ELSE IF type = "UPDATE" THEN RowVersion(st, m) + 1 ELSE 0]

\* the changes of table messages with one more, while the model follows
\* them: the first MaxEvents changes
Publish(st, type, m, cv) ==
  IF Len(st) < MaxEvents THEN Append(st, Change(st, type, m, cv)) ELSE st

SendInsert(c) ==
  /\ call[c].pc = "send_insert"
  /\ \E o \in Outcomes :
       /\ Spend(o)
       /\ LET row == [id |-> NextId({m.id : m \in messages}),
                      conversation_id |-> call[c].conv, sender_id |-> call[c].user,
                      content |-> call[c].content, is_liked |-> FALSE]
          IN IF o = "throw" THEN Finish(c, o, FailedSend) /\ UNCHANGED messages
             ELSE IF o = "error" THEN Finish(c, o, StoreError) /\ UNCHANGED messages
             ELSE IF ~MessagesInsertPolicy(call[c].user, row)
                  THEN Finish(c, o, RlsViolation) /\ UNCHANGED messages
             ELSE /\ messages' = messages \cup {row}
                  /\ call' = [call EXCEPT ![c] =
                       Merge(@, [pc |-> "done", result |-> Ok, msg |-> row.id])]
       /\ stream' = IF messages' = messages THEN stream
                    ELSE LET row == CHOOSE m \in messages' \ messages : TRUE
                         IN Publish(stream, "INSERT", row.id, row.conversation_id)
  /\ UNCHANGED <<conversations, participants, reactions, reaction_counts, pre, started,
                 channels, userId, client, made, invoked, cleared, typevars>>

\* ----------------------------------------------------------- updateMessage
StartUpdate(c) ==
  \E u \in Users, m \in MsgIds, b \in BOOLEAN :
    Begin(c, [op |-> "updateMessage", pc |-> "upd_get", user |-> u, msg |-> m, patch |-> b])

\* select('*').eq('id', messageId).single(): shared by the message lookups
FindMessage(user, id) == {m \in messages : m.id = id /\ MessagesSelectPolicy(user, m)}

UpdGet(c) ==
  /\ call[c].pc = "upd_get"
  /\ \E o \in Outcomes :
       /\ Spend(o)
       /\ LET found == FindMessage(call[c].user, call[c].msg)
          IN IF o = "throw" THEN Finish(c, o, FailedUpdate)
             ELSE IF o = "error" \/ found = {} THEN Finish(c, o, MessageNotFound)
             ELSE Goto(c, o, "upd_gcp",
                       [conv |-> (CHOOSE m \in found : TRUE).conversation_id])
  /\ UNCHANGED <<conversations, participants, messages, reactions, reaction_counts, pre, started, rtvars>>

UpdCheck(c) ==
  /\ call[c].pc = "upd_gcp"
  /\ \E o \in Outcomes :
       /\ Spend(o)
       /\ LET g == GetConversationParticipants(call[c].conv, call[c].user, o)
          IN IF g.error # NoError THEN Finish(c, o, g.error)
             ELSE IF call[c].user \notin g.participants THEN Finish(c, o, NotAuthUpdate)
             ELSE Goto(c, o, "upd_update", [conv |-> call[c].conv])
  /\ UNCHANGED <<conversations, participants, messages, reactions, reaction_counts, pre, started, rtvars>>

UpdUpdate(c) ==
  /\ call[c].pc = "upd_update"
  /\ \E o \in Outcomes :
       /\ Spend(o)
       /\ LET hit == {m \in messages : /\ m.id = call[c].msg
                                       /\ MessagesSelectPolicy(call[c].user, m)
                                       /\ MessagesUpdatePolicy(call[c].user, m)}
          IN IF o = "throw" THEN Finish(c, o, FailedUpdate) /\ UNCHANGED messages
             ELSE IF o = "error" THEN Finish(c, o, StoreError) /\ UNCHANGED messages
             ELSE IF hit = {} THEN Finish(c, o, NoRows) /\ UNCHANGED messages
             ELSE /\ messages' = (messages \ hit)
                       \cup {[m EXCEPT !.is_liked = call[c].patch] : m \in hit}
                  /\ Finish(c, o, Ok)
       /\ stream' = IF call'[c].result # Ok THEN stream
                    ELSE LET row == CHOOSE m \in messages : m.id = call[c].msg
                         IN Publish(stream, "UPDATE", row.id, row.conversation_id)
  /\ UNCHANGED <<conversations, participants, reactions, reaction_counts, pre, started,
                 channels, userId, client, made, invoked, cleared, typevars>>


\* ------------------------------------------------------------- the reads
\* the call returns data with no error
FinishWith(c, o, data) ==
  call' = [call EXCEPT ![c] =
             Merge(@, [pc |-> "done", result |-> Ok, data |-> data, faulted |-> Mark(c, o)])]

StartGetParticipants(c) ==
  \E u \in Users, cv \in 1..MaxConvs :
    Begin(c, [op |-> "getConversationParticipants", pc |-> "gp_read", user |-> u, conv |-> cv])

\* getConversationParticipants(conversationId, userId)
GpRead(c) ==
  /\ call[c].pc = "gp_read"
  /\ \E o \in Outcomes :
       /\ Spend(o)
       /\ LET g == GetConversationParticipants(call[c].conv, call[c].user, o)
          IN IF g.error # NoError THEN Finish(c, o, g.error)
             ELSE FinishWith(c, o, g.participants)
  /\ UNCHANGED <<conversations, participants, messages, reactions, reaction_counts, pre, started, rtvars>>

StartGetMessages(c) ==
  \E u \in Users, cv \in 1..MaxConvs :
    Begin(c, [op |-> "getMessages", pc |-> "gm_gcp", user |-> u, conv |-> cv])

StartSearch(c) ==
  \E u \in Users, cv \in 1..MaxConvs, q \in Queries :
    Begin(c, [op |-> "searchMessages", pc |-> "gm_gcp", user |-> u, conv |-> cv, query |-> q])

\* getMessages and searchMessages: the check of the participant
GmCheck(c) ==
  /\ call[c].pc = "gm_gcp"
  /\ \E o \in Outcomes :
       /\ Spend(o)
       /\ LET g == GetConversationParticipants(call[c].conv, call[c].user, o)
          IN IF g.error # NoError THEN Finish(c, o, g.error)
             ELSE IF call[c].user \notin g.participants
                  THEN Finish(c, o, IF call[c].op = "getMessages" THEN NotAuthMessages
                                    ELSE NotAuthSearch)
             ELSE Goto(c, o, "gm_read", [conv |-> call[c].conv])
  /\ UNCHANGED <<conversations, participants, messages, reactions, reaction_counts, pre, started, rtvars>>

\* ilike('content', `%${query}%`) on the contents of the model
Ilike(content, query) == query = "" \/ query = content

\* getMessages: select('*').eq('conversation_id', conversationId);
\* searchMessages: the same with ilike('content', ...)
GmRead(c) ==
  /\ call[c].pc = "gm_read"
  /\ \E o \in Outcomes :
       /\ Spend(o)
       /\ IF o = "throw"
          THEN Finish(c, o, IF call[c].op = "getMessages" THEN FailedMessages ELSE FailedSearch)
          ELSE IF o = "error" THEN Finish(c, o, StoreError)
          ELSE FinishWith(c, o,
                 {m \in messages :
                    /\ m.conversation_id = call[c].conv
                    /\ MessagesSelectPolicy(call[c].user, m)
                    /\ call[c].op = "searchMessages" => Ilike(m.content, call[c].query)})
  /\ UNCHANGED <<conversations, participants, messages, reactions, reaction_counts, pre, started, rtvars>>

StartGetConversation(c) ==
  \E u \in Users, cv \in 1..MaxConvs :
    Begin(c, [op |-> "getConversation", pc |-> "gc_conv", user |-> u, conv |-> cv])

\* getConversation: from('conversations').select('*').eq('id', ...).single()
GcConversation(c) ==
  /\ call[c].pc = "gc_conv"
  /\ \E o \in Outcomes :
       /\ Spend(o)
       /\ LET found == {cv \in conversations :
                          cv = call[c].conv /\ ConversationsSelectPolicy(call[c].user, cv)}
          IN IF o = "throw" THEN Finish(c, o, FailedConversation)
             ELSE IF o = "error" THEN Finish(c, o, StoreError)
             ELSE IF found = {} THEN Finish(c, o, NoRows)
             ELSE Goto(c, o, "gc_parts", [conv |-> call[c].conv])
  /\ UNCHANGED <<conversations, participants, messages, reactions, reaction_counts, pre, started, rtvars>>

\* getConversation: the participants and the check of the current user
GcParticipants(c) ==
  /\ call[c].pc = "gc_parts"
  /\ \E o \in Outcomes :
       /\ Spend(o)
       /\ LET rows == {u \in Users : /\ <<call[c].conv, u>> \in participants
                                      /\ ParticipantsSelectPolicy(call[c].user, <<call[c].conv, u>>)}
          IN IF o = "throw" THEN Finish(c, o, FailedConversation)
             ELSE IF o = "error" THEN Finish(c, o, StoreError)
             ELSE IF call[c].user \notin rows THEN Finish(c, o, NotAuthConversation)
             ELSE FinishWith(c, o, {[conversation |-> call[c].conv, participants |-> rows]})
  /\ UNCHANGED <<conversations, participants, messages, reactions, reaction_counts, pre, started, rtvars>>

StartGetReactions(c) ==
  \E u \in Users, m \in MsgIds :
    Begin(c, [op |-> "getMessageReactions", pc |-> "gr_get", user |-> u, msg |-> m])

\* getMessageReactions: the message, for its conversation
GrGet(c) ==
  /\ call[c].pc = "gr_get"
  /\ \E o \in Outcomes :
       /\ Spend(o)
       /\ LET found == {m \in messages :
                          m.id = call[c].msg /\ MessagesSelectPolicy(call[c].user, m)}
          IN IF o = "throw" THEN Finish(c, o, FailedReactions)
             ELSE IF o = "error" \/ found = {} THEN Finish(c, o, MessageNotFound)
             ELSE Goto(c, o, "gr_gcp",
                       [conv |-> (CHOOSE m \in found : TRUE).conversation_id])
  /\ UNCHANGED <<conversations, participants, messages, reactions, reaction_counts, pre, started, rtvars>>

\* getMessageReactions: the check of the participant
GrCheck(c) ==
  /\ call[c].pc = "gr_gcp"
  /\ \E o \in Outcomes :
       /\ Spend(o)
       /\ LET g == GetConversationParticipants(call[c].conv, call[c].user, o)
          IN IF g.error # NoError THEN Finish(c, o, g.error)
             ELSE IF call[c].user \notin g.participants THEN Finish(c, o, NotAuthReactions)
             ELSE Goto(c, o, "gr_read", [conv |-> call[c].conv])
  /\ UNCHANGED <<conversations, participants, messages, reactions, reaction_counts, pre, started, rtvars>>

\* getMessageReactions: the rows of the message, as {userId, emoji}
GrRead(c) ==
  /\ call[c].pc = "gr_read"
  /\ \E o \in Outcomes :
       /\ Spend(o)
       /\ IF o = "throw" THEN Finish(c, o, FailedReactions)
          ELSE IF o = "error" THEN Finish(c, o, StoreError)
          ELSE FinishWith(c, o,
                 {[userId |-> reactions[i].user_id, emoji |-> reactions[i].emoji] :
                    i \in {j \in 1..Len(reactions) :
                             /\ reactions[j].message_id = call[c].msg
                             /\ ReactionsSelectPolicy(call[c].user, reactions[j])}})
  /\ UNCHANGED <<conversations, participants, messages, reactions, reaction_counts, pre, started, rtvars>>

\* ------------------------------------------------- updateReactionCounts
\* the read of the rows with its failure handed on to the caller
RecomputeReadThrows(c) ==
  /\ call[c].pc = "rc_read"
  /\ \E o \in Outcomes :
       /\ Spend(o)
       /\ IF o # "ok" THEN Finish(c, o, FailedAdd)
          ELSE Goto(c, o, "rc_upsert",
                    [counts |-> FoldReactions(VisibleReactions(call[c].user, call[c].msg)),
                     seen |-> RowsOf(reactions, call[c].msg),
                     before |-> CountsOf(call[c].msg),
                     alone |-> \A d \in Calls \ {c} : call[d].pc = "idle"])
  /\ UNCHANGED <<conversations, participants, messages, reactions, reaction_counts, pre, started, rtvars>>

\* select('emoji, user_id').eq('message_id', messageId), then the fold;
\* an error is logged and a throw is caught: the caller goes on to return {}
RecomputeRead(c) ==
  /\ call[c].pc = "rc_read"
  /\ \E o \in Outcomes :
       /\ Spend(o)
       /\ IF o # "ok" THEN Finish(c, o, Ok)
          ELSE Goto(c, o, "rc_upsert",
                    [counts |-> FoldReactions(VisibleReactions(call[c].user, call[c].msg)),
                     seen |-> RowsOf(reactions, call[c].msg),
                     before |-> CountsOf(call[c].msg),
                     alone |-> \A d \in Calls \ {c} : call[d].pc = "idle"])
  /\ UNCHANGED <<conversations, participants, messages, reactions, reaction_counts, pre, started, rtvars>>

\* the recompute patching the counts row: entries of emojis it did not
\* read are kept
RecomputeUpsertPatches(c) ==
  /\ call[c].pc = "rc_upsert"
  /\ \E o \in Outcomes :
       /\ Spend(o)
       /\ Finish(c, o, Ok)
       /\ reaction_counts' = IF o # "ok" THEN reaction_counts
                             ELSE (call[c].msg :> (call[c].counts @@ CountsOf(call[c].msg)))
                                    @@ reaction_counts
  /\ UNCHANGED <<conversations, participants, messages, reactions, pre, started, rtvars>>

\* the recompute with a plain insert: an existing counts row is kept
RecomputeUpsertInsertOnly(c) ==
  /\ call[c].pc = "rc_upsert"
  /\ \E o \in Outcomes :
       /\ Spend(o)
       /\ Finish(c, o, Ok)
       /\ reaction_counts' = IF o # "ok" THEN reaction_counts
                             ELSE reaction_counts @@ (call[c].msg :> call[c].counts)
  /\ UNCHANGED <<conversations, participants, messages, reactions, pre, started, rtvars>>

\* the recompute returning before its upsert is applied
RecomputeUpsertDropped(c) ==
  /\ call[c].pc = "rc_upsert"
  /\ \E o \in Outcomes :
       /\ Spend(o)
       /\ Finish(c, o, Ok)
  /\ UNCHANGED <<conversations, participants, messages, reactions, reaction_counts, pre, started, rtvars>>

\* upsert([{message_id, counts, updated_at}], {onConflict: 'message_id'})
RecomputeUpsert(c) ==
  /\ call[c].pc = "rc_upsert"
  /\ \E o \in Outcomes :
       /\ Spend(o)
       /\ Finish(c, o, Ok)
       /\ reaction_counts' = IF o # "ok" THEN reaction_counts
                             ELSE (call[c].msg :> call[c].counts) @@ reaction_counts
  /\ UNCHANGED <<conversations, participants, messages, reactions, pre, started, rtvars>>

\* ------------------------------------------------------------- addReaction
StartAdd(c, callers) ==
  \E u \in callers, m \in MsgIds, e \in Emojis :
    Begin(c, [op |-> "addReaction", pc |-> "add_get", user |-> u, msg |-> m, emoji |-> e])

AddGet(c) ==
  /\ call[c].pc = "add_get"
  /\ \E o \in Outcomes :
       /\ Spend(o)
       /\ LET found == FindMessage(call[c].user, call[c].msg)
          IN IF o = "throw" THEN Finish(c, o, FailedAdd)
             ELSE IF o = "error" \/ found = {} THEN Finish(c, o, MessageNotFound)
             ELSE Goto(c, o, "add_gcp",
                       [conv |-> (CHOOSE m \in found : TRUE).conversation_id])
  /\ UNCHANGED <<conversations, participants, messages, reactions, reaction_counts, pre, started, rtvars>>

AddCheck(c) ==
  /\ call[c].pc = "add_gcp"
  /\ \E o \in Outcomes :
       /\ Spend(o)
       /\ LET g == GetConversationParticipants(call[c].conv, call[c].user, o)
          IN IF g.error # NoError THEN Finish(c, o, g.error)
             ELSE IF call[c].user \notin g.participants THEN Finish(c, o, NotAuthReact)
             ELSE Goto(c, o, "add_existing", [conv |-> call[c].conv])
  /\ UNCHANGED <<conversations, participants, messages, reactions, reaction_counts, pre, started, rtvars>>

Triple(c) == [message_id |-> call[c].msg, user_id |-> call[c].user, emoji |-> call[c].emoji]

\* the existing-reaction lookup with its result ignored
AddExistingNoTest(c) ==
  /\ call[c].pc = "add_existing"
  /\ \E o \in Outcomes :
       /\ Spend(o)
       /\ IF o = "throw" THEN Finish(c, o, FailedAdd)
          ELSE Goto(c, o, "add_insert", [conv |-> call[c].conv])
  /\ UNCHANGED <<conversations, participants, messages, reactions, reaction_counts, pre, started, rtvars>>

\* select('id')...single(): only data is read, the error is dropped
AddExisting(c) ==
  /\ call[c].pc = "add_existing"
  /\ \E o \in Outcomes :
       /\ Spend(o)
       /\ LET hits == SelectSeq(VisibleReactions(call[c].user, call[c].msg),
                                LAMBDA r : r = Triple(c))
          IN IF o = "throw" THEN Finish(c, o, FailedAdd)
             ELSE IF o = "ok" /\ Len(hits) = 1 THEN Finish(c, o, ReactionExists)
             ELSE Goto(c, o, "add_insert", [conv |-> call[c].conv])
  /\ UNCHANGED <<conversations, participants, messages, reactions, reaction_counts, pre, started, rtvars>>

AddInsert(c) ==
  /\ call[c].pc = "add_insert"
  /\ \E o \in Outcomes :
       /\ Spend(o)
       /\ IF o = "throw" THEN Finish(c, o, FailedAdd) /\ UNCHANGED reactions
          ELSE IF o = "error" THEN Finish(c, o, StoreError) /\ UNCHANGED reactions
          ELSE IF ~ReactionsInsertPolicy(call[c].user, Triple(c))
               THEN Finish(c, o, RlsViolation) /\ UNCHANGED reactions
          ELSE IF ~ReactionsUnique(reactions, Triple(c))
               THEN Finish(c, o, UniqueViolation) /\ UNCHANGED reactions
          ELSE /\ reactions' = Append(reactions, Triple(c))
               /\ Goto(c, o, "rc_read", [conv |-> call[c].conv])
  /\ UNCHANGED <<conversations, participants, messages, reaction_counts, pre, started, rtvars>>

\* ---------------------------------------------------------- removeReaction
StartRemove(c, callers) ==
  \E u \in callers, m \in MsgIds, e \in Emojis :
    Begin(c, [op |-> "removeReaction", pc |-> "rem_get", user |-> u, msg |-> m, emoji |-> e])

RemGet(c) ==
  /\ call[c].pc = "rem_get"
  /\ \E o \in Outcomes :
       /\ Spend(o)
       /\ LET found == FindMessage(call[c].user, call[c].msg)
          IN IF o = "throw" THEN Finish(c, o, FailedRemove)
             ELSE IF o = "error" \/ found = {} THEN Finish(c, o, MessageNotFound)
             ELSE Goto(c, o, "rem_gcp",
                       [conv |-> (CHOOSE m \in found : TRUE).conversation_id])
  /\ UNCHANGED <<conversations, participants, messages, reactions, reaction_counts, pre, started, rtvars>>

RemCheck(c) ==
  /\ call[c].pc = "rem_gcp"
  /\ \E o \in Outcomes :
       /\ Spend(o)
       /\ LET g == GetConversationParticipants(call[c].conv, call[c].user, o)
          IN IF g.error # NoError THEN Finish(c, o, g.error)
             ELSE IF call[c].user \notin g.participants THEN Finish(c, o, NotAuthUnreact)
             ELSE Goto(c, o, "rem_delete", [conv |-> call[c].conv])
  /\ UNCHANGED <<conversations, participants, messages, reactions, reaction_counts, pre, started, rtvars>>

\* the filter of the delete with the emoji test left out
DeleteFilterNoEmoji(c, r) ==
  r.message_id = call[c].msg /\ r.user_id = call[c].user

\* the filter of the delete with the user test only
DeleteFilterUserOnly(c, r) == r.user_id = call[c].user

\* delete().eq('message_id', ..).eq('user_id', ..).eq('emoji', ..)
DeleteFilter(c, r) ==
  r.message_id = call[c].msg /\ r.user_id = call[c].user /\ r.emoji = call[c].emoji

RemDelete(c) ==
  /\ call[c].pc = "rem_delete"
  /\ \E o \in Outcomes :
       /\ Spend(o)
       /\ IF o = "throw" THEN Finish(c, o, FailedRemove) /\ UNCHANGED reactions
          ELSE IF o = "error" THEN Finish(c, o, StoreError) /\ UNCHANGED reactions
          ELSE /\ reactions' = SelectSeq(reactions, LAMBDA r :
                     ~(/\ DeleteFilter(c, r)
                       /\ ReactionsSelectPolicy(call[c].user, r)
                       /\ ReactionsDeletePolicy(call[c].user, r)))
               /\ Goto(c, o, "rc_read", [conv |-> call[c].conv])
  /\ UNCHANGED <<conversations, participants, messages, reaction_counts, pre, started, rtvars>>


\* ------------------------------------------------------ createConversation
StartCreate(c) ==
  /\ Cardinality(conversations) < MaxConvs
  /\ \E u \in Users, ids \in SUBSET Users \ {{}} :
       Begin(c, [op |-> "createConversation", pc |-> "cc_insert", user |-> u, pids |-> ids])

\* insert([{}]).select().single()
CreateInsert(c) ==
  /\ call[c].pc = "cc_insert"
  /\ \E o \in Outcomes :
       /\ Spend(o)
       /\ LET id == NextId(conversations)
          IN IF o # "ok" \/ ~ConversationsInsertPolicy(call[c].user, id)
             THEN Finish(c, o, FailedCreate) /\ UNCHANGED conversations
             ELSE /\ conversations' = conversations \cup {id}
                  /\ Goto(c, o, "cc_participants", [conv |-> id])
  /\ UNCHANGED <<participants, messages, reactions, reaction_counts, pre, started, rtvars>>

\* insert(participantInserts): one statement, all rows or none
CreateParticipants(c) ==
  /\ call[c].pc = "cc_participants"
  /\ \E o \in Outcomes :
       /\ Spend(o)
       /\ LET rows == {<<call[c].conv, u>> : u \in call[c].pids}
          IN IF o = "throw" THEN Finish(c, o, FailedCreate) /\ UNCHANGED participants
             ELSE IF o = "error" \/ \E r \in rows : ~ParticipantsInsertPolicy(call[c].user, r)
                  THEN Goto(c, o, "cc_cleanup", [conv |-> call[c].conv])
                       /\ UNCHANGED participants
             ELSE /\ participants' = participants \cup rows
                  /\ Finish(c, o, Ok)
  /\ UNCHANGED <<conversations, messages, reactions, reaction_counts, pre, started, rtvars>>

\* delete().eq('id', conversation.id): its result is not looked at;
\* ON DELETE CASCADE takes the rows that reference a deleted conversation
CreateCleanup(c) ==
  /\ call[c].pc = "cc_cleanup"
  /\ \E o \in Outcomes :
       /\ Spend(o)
       /\ LET gone == IF o = "ok" THEN {id \in conversations :
                                          /\ id = call[c].conv
                                          /\ ConversationsSelectPolicy(call[c].user, id)
                                          /\ ConversationsDeletePolicy(call[c].user, id)}
                      ELSE {}
          IN /\ conversations' = conversations \ gone
             /\ participants' = {r \in participants : r[1] \notin gone}
             /\ messages' = {m \in messages : m.conversation_id \notin gone}
       /\ Finish(c, o, IF o = "throw" THEN FailedCreate ELSE FailedAddParticipants)
  /\ UNCHANGED <<reactions, reaction_counts, pre, started, rtvars>>

\* ------------------------------------------------------------ environment
\* a user deletes their own conversation_participants row
Leave(u, cv) ==
  /\ <<cv, u>> \in participants
  /\ ParticipantsSelectPolicy(u, <<cv, u>>) /\ ParticipantsDeletePolicy(u, <<cv, u>>)
  /\ participants' = participants \ {<<cv, u>>}
  /\ UNCHANGED <<conversations, messages, reactions, reaction_counts, call, faultsLeft, pre, started, rtvars>>

\* the caller receives the return value
Return(c) ==
  /\ call[c].pc = "done"
  /\ call' = [call EXCEPT ![c] = Idle]
  /\ pre' = NoSnapshot
  /\ UNCHANGED <<conversations, participants, messages, reactions, reaction_counts,
                 faultsLeft, started, rtvars>>

\* ------------------------------------------------------- RealtimeService
\* private channels = new Map(); private userId = null; nothing subscribed,
\* nothing committed
InitRealtime ==
  /\ channels = EmptyFn
  /\ userId = 0
  /\ client = EmptyFn
  /\ made = 0
  /\ stream = <<>>
  /\ invoked = <<>>
  /\ cleared = 0
  /\ presence = EmptyFn
  /\ unsynced = {}
  /\ heard = EmptyFn
  /\ typingCall = 0

\* initialize(userId)
Initialize(u) ==
  /\ userId' = u
  /\ UNCHANGED <<channels, client, made, stream, invoked, cleared, storevars, typevars>>

\* `messages:${conversationId}`
MessagesChannel(cv) == <<"messages", cv>>

ChannelNames == {MessagesChannel(cv) : cv \in 1..MaxConvs}

\* the channels that the realtime client holds
InClient(cl) == {ch \in DOMAIN cl : cl[ch].state # "closed"}

\* supabase.removeChannel(channel): the client drops the channel
RemoveChannel(cl, ch) == [cl EXCEPT ![ch] = [@ EXCEPT !.state = "closed", !.from = 0]]

\* this.channels.delete(channelName)
MapDelete(map, name) == [k \in DOMAIN map \ {name} |-> map[k]]

\* unsubscribe(channelName) removing every channel of the map
UnsubscribedEvery(name) ==
  IF name \in DOMAIN channels
  THEN [channels |-> EmptyFn,
        client |-> [k \in DOMAIN client |->
                      IF k \in {channels[n] : n \in DOMAIN channels}
                      THEN RemoveChannel(client, k)[k] ELSE client[k]]]
  ELSE [channels |-> channels, client |-> client]

\* unsubscribe(channelName) as the other methods call it: the map and the
\* client after it
Unsubscribed(name) ==
  IF name \in DOMAIN channels
  THEN [channels |-> MapDelete(channels, name),
        client |-> RemoveChannel(client, channels[name])]
  ELSE [channels |-> channels, client |-> client]

\* the channels that unsubscribe(channelName) removes
Removed(name) == IF name \in DOMAIN channels THEN {channels[name]} ELSE {}

\* channels removed from the client leave their presence topics: their
\* records go, and their handlers are called no more
Forget(chs) ==
  /\ presence' = [o \in {p \in DOMAIN presence : ~(p[1] = "local" /\ p[2] \in chs)}
                    |-> presence[o]]
  /\ unsynced' = unsynced \ chs
  /\ heard' = [c \in DOMAIN heard \ chs |-> heard[c]]
  /\ UNCHANGED typingCall

\* unsubscribe(channelName)
Unsubscribe(name) ==
  /\ channels' = Unsubscribed(name).channels
  /\ client' = Unsubscribed(name).client
  /\ Forget(Removed(name))
  /\ UNCHANGED <<userId, made, stream, invoked, cleared, storevars>>

\* subscribeToMessages with the channel taken as subscribed at once
SubscribeToMessagesJoined(cv) ==
  /\ made < MaxChannels
  /\ LET name == MessagesChannel(cv)
         u == Unsubscribed(name)
         ch == made + 1
     IN /\ channels' = (name :> ch) @@ u.channels
        /\ client' = (ch :> [name |-> name, state |-> "joined", from |-> Len(stream),
                             since |-> Len(stream), joinedOnce |-> TRUE]) @@ u.client
        /\ made' = ch
  /\ Forget(Removed(MessagesChannel(cv)))
  /\ UNCHANGED <<userId, stream, invoked, cleared, storevars>>

\* subscribeToMessages with the removal of the existing channel left out
SubscribeToMessagesKeepsOld(cv) ==
  /\ made < MaxChannels
  /\ LET name == MessagesChannel(cv)
         ch == made + 1
     IN /\ channels' = (name :> ch) @@ channels
        /\ client' = (ch :> [name |-> name, state |-> "joining", from |-> 0, since |-> 0, joinedOnce |-> FALSE]) @@ client
        /\ made' = ch
  /\ UNCHANGED <<userId, stream, invoked, cleared, storevars, typevars>>

\* subscribeToMessages(conversationId, onMessage): the existing channel of
\* the name is removed, a channel is created with the three handlers, its
\* subscription is requested and it is put in the map.  The callback
\* onMessage of the call is known by the channel it is bound to.
SubscribeToMessages(cv) ==
  /\ made < MaxChannels
  /\ LET name == MessagesChannel(cv)
         u == Unsubscribed(name)
         ch == made + 1
     IN /\ channels' = (name :> ch) @@ u.channels
        /\ client' = (ch :> [name |-> name, state |-> "joining", from |-> 0, since |-> 0, joinedOnce |-> FALSE]) @@ u.client
        /\ made' = ch
  /\ Forget(Removed(MessagesChannel(cv)))
  /\ UNCHANGED <<userId, stream, invoked, cleared, storevars>>

\* unsubscribeAll() with the channels left in the client
UnsubscribeAllMapOnly ==
  /\ channels' = EmptyFn
  /\ cleared' = made
  /\ UNCHANGED <<userId, client, made, stream, invoked, storevars, typevars>>

\* unsubscribeAll(): every channel of the map is removed, the map is cleared
UnsubscribeAll ==
  /\ client' = [k \in DOMAIN client |->
                  IF k \in {channels[n] : n \in DOMAIN channels}
                  THEN RemoveChannel(client, k)[k] ELSE client[k]]
  /\ channels' = EmptyFn
  /\ cleared' = made
  /\ Forget({channels[n] : n \in DOMAIN channels})
  /\ UNCHANGED <<userId, made, stream, invoked, storevars>>

\* cleanup(): unsubscribeAll(), then userId = null
Cleanup ==
  /\ client' = [k \in DOMAIN client |->
                  IF k \in {channels[n] : n \in DOMAIN channels}
                  THEN RemoveChannel(client, k)[k] ELSE client[k]]
  /\ channels' = EmptyFn
  /\ userId' = 0
  /\ cleared' = made
  /\ Forget({channels[n] : n \in DOMAIN channels})
  /\ UNCHANGED <<made, stream, invoked, storevars>>

\* the status callback putting the acknowledged channel in the map
AcknowledgedRegisters(ch) ==
  /\ ch \in DOMAIN client /\ client[ch].state \in {"joining", "closed"}
  /\ client' = [client EXCEPT ![ch] = [@ EXCEPT !.state = "joined", !.from = Len(stream), !.since = Len(stream), !.joinedOnce = TRUE]]
  /\ channels' = (client[ch].name :> ch) @@ channels
  /\ unsynced' = IF client[ch].name[1] = "typing" THEN unsynced \cup {ch} ELSE unsynced
  /\ UNCHANGED <<userId, made, stream, invoked, cleared, storevars, presence, heard, typingCall>>

\* the acknowledgement of a channel's subscription arrives: the status
\* callback logs SUBSCRIBED and the channel, if the client still holds it,
\* gets the changes committed from now on; a presence channel gets the
\* records of its topic, a sync event
Acknowledged(ch) ==
  /\ ch \in DOMAIN client /\ client[ch].state \in {"joining", "closed"}
  /\ client' = IF client[ch].state = "closed" THEN client
               ELSE [client EXCEPT ![ch] = [@ EXCEPT !.state = "joined", !.from = Len(stream), !.since = Len(stream), !.joinedOnce = TRUE]]
  /\ unsynced' = IF client[ch].state = "joining" /\ client[ch].name[1] = "typing"
                 THEN unsynced \cup {ch} ELSE unsynced
  /\ UNCHANGED <<channels, userId, made, stream, invoked, cleared, storevars, presence, heard, typingCall>>

\* the subscription fails or the channel breaks: the status callback logs
\* CHANNEL_ERROR or TIMED_OUT
ChannelError(ch) ==
  /\ ch \in DOMAIN client /\ client[ch].state \in {"joining", "joined"}
  /\ client' = [client EXCEPT ![ch] = [@ EXCEPT !.state = "errored"]]
  /\ UNCHANGED <<channels, userId, made, stream, invoked, cleared, storevars, typevars>>

\* ------------------------------------------------------ typing indicators
\* `typing:${conversationId}`
TypingChannel(cv) == <<"typing", cv>>

TypingNames == {TypingChannel(cv) : cv \in 1..MaxConvs}

\* subscribeToTyping(conversationId, onTypingChange): the existing channel
\* of the name is removed, a channel is created with presence key
\* String(this.userId) and the sync, join and leave handlers, its
\* subscription is requested and it is put in the map
SubscribeToTyping(cv) ==
  /\ made < MaxChannels
  /\ LET name == TypingChannel(cv)
         u == Unsubscribed(name)
         ch == made + 1
     IN /\ channels' = (name :> ch) @@ u.channels
        /\ client' = (ch :> [name |-> name, state |-> "joining", from |-> 0, since |-> 0,
                             joinedOnce |-> FALSE, key |-> userId]) @@ u.client
        /\ made' = ch
  /\ Forget(Removed(TypingChannel(cv)))
  /\ UNCHANGED <<userId, stream, invoked, cleared, storevars>>

\* the owners of the records of the presence channel of conversation cv:
\* other clients, and the channels of this client that it holds open (a
\* record with gone set is history: the record that a session had with
\* typing set when it disconnected)
Present(cv) ==
  {o \in DOMAIN presence :
     /\ presence[o].conv = cv /\ ~presence[o].gone
     /\ o[1] = "local" => client[o[2]].state \in {"joining", "joined"}}

\* channel.presenceState(): presence key -> the records under the key
PresenceState(cv) ==
  [k \in {presence[o].key : o \in Present(cv)} |-> {o \in Present(cv) : presence[o].key = k}]

\* presences[0] for every key: the order of the records under a key is the
\* client's, any of them may come first
Firsts(cv) ==
  {f \in [DOMAIN PresenceState(cv) -> Present(cv)] :
     \A k \in DOMAIN f : f[k] \in PresenceState(cv)[k]}

\* the channels of this client that get a sync event for a change of the
\* records of conversation cv
ToSync(cv) ==
  {ch \in DOMAIN client : client[ch].state = "joined" /\ client[ch].name = TypingChannel(cv)}

\* the sync handler with the test on this.userId left out
TypingUsersWithOwn(ch, first) ==
  {[userId |-> presence[first[k]].userId, username |-> presence[first[k]].username] :
     k \in {j \in DOMAIN first : presence[first[j]].typing}}

\* the sync handler adding to the list it gave before
TypingUsersKept(ch, first) ==
  {[userId |-> presence[first[k]].userId, username |-> presence[first[k]].username] :
     k \in {j \in DOMAIN first :
              presence[first[j]].typing /\ presence[first[j]].userId # userId}}
    \cup (IF ch \in DOMAIN heard THEN heard[ch].list ELSE {})

\* the sync handler: typingUsers takes {userId, username} of the first
\* record of every key that has typing set and a userId other than
\* this.userId
TypingUsers(ch, first) ==
  {[userId |-> presence[first[k]].userId, username |-> presence[first[k]].username] :
     k \in {j \in DOMAIN first :
              presence[first[j]].typing /\ presence[first[j]].userId # userId}}

\* a sync event of a typing channel: onTypingChange(typingUsers)
TypingSync(ch) ==
  /\ ch \in unsynced /\ client[ch].state = "joined"
  /\ \E first \in Firsts(client[ch].name[2]) :
       heard' = (ch :> [list |-> TypingUsers(ch, first)]) @@ heard
  /\ unsynced' = unsynced \ {ch}
  /\ UNCHANGED <<presence, typingCall, channels, userId, client, made, stream, invoked,
                 cleared, storevars>>

\* channel.track(record): the record of the channel in its topic is set,
\* if the client holds the channel open
Track(ch, record) ==
  IF client[ch].state \in {"joining", "joined"}
  THEN /\ presence' = (<<"local", ch>> :> record) @@ presence
       /\ unsynced' = unsynced \cup ToSync(record.conv)
  ELSE UNCHANGED <<presence, unsynced>>

\* sendTyping without the test on this.userId
SendTypingUninitialized(cv, username, isTyping) ==
  /\ typingCall' = cv
  /\ IF TypingChannel(cv) \in DOMAIN channels
     THEN LET ch == channels[TypingChannel(cv)]
          IN Track(ch, [conv |-> cv, key |-> client[ch].key, userId |-> userId,
                        username |-> username, typing |-> isTyping, gone |-> FALSE])
     ELSE UNCHANGED <<presence, unsynced>>
  /\ UNCHANGED <<heard, channels, userId, client, made, stream, invoked, cleared, storevars>>

\* sendTyping(conversationId, username, isTyping): nothing without a userId
\* or without a channel of the name in the map; else the record {userId,
\* username, typing} is tracked on the channel (lastTyped is left out)
SendTyping(cv, username, isTyping) ==
  /\ typingCall' = cv
  /\ IF userId # 0 /\ TypingChannel(cv) \in DOMAIN channels
     THEN LET ch == channels[TypingChannel(cv)]
          IN Track(ch, [conv |-> cv, key |-> client[ch].key, userId |-> userId,
                        username |-> username, typing |-> isTyping, gone |-> FALSE])
     ELSE UNCHANGED <<presence, unsynced>>
  /\ UNCHANGED <<heard, channels, userId, client, made, stream, invoked, cleared, storevars>>

\* the name a user goes by
NameOf(u) == IF u = 1 THEN "alice" ELSE "bob"

\* the session r of another client, signed in as user u and subscribed to
\* the typing of conversation cv, calls sendTyping (a session that
\* disconnected while marked typing stays away: a client that comes back
\* is another session)
RemoteTrack(r, cv, u, isTyping) ==
  /\ <<"remote", r>> \in DOMAIN presence => ~presence[<<"remote", r>>].gone
  /\ presence' = (<<"remote", r>> :> [conv |-> cv, key |-> u, userId |-> u,
                                       username |-> NameOf(u), typing |-> isTyping,
                                       gone |-> FALSE])
                    @@ presence
  /\ unsynced' = unsynced \cup ToSync(cv)
       \cup (IF <<"remote", r>> \in DOMAIN presence
             THEN ToSync(presence[<<"remote", r>>].conv) ELSE {})
  /\ UNCHANGED <<heard, typingCall, channels, userId, client, made, stream, invoked,
                 cleared, storevars>>

\* the session r of another client disconnects or unsubscribes: the
\* channel removes its record
RemoteLeave(r) ==
  /\ <<"remote", r>> \in DOMAIN presence /\ ~presence[<<"remote", r>>].gone
  /\ presence' = IF presence[<<"remote", r>>].typing
                 THEN [presence EXCEPT ![<<"remote", r>>] = [@ EXCEPT !.gone = TRUE]]
                 ELSE [o \in DOMAIN presence \ {<<"remote", r>>} |-> presence[o]]
  /\ unsynced' = unsynced \cup ToSync(presence[<<"remote", r>>].conv)
  /\ UNCHANGED <<heard, typingCall, channels, userId, client, made, stream, invoked,
                 cleared, storevars>>

\* the connection of the client drops: every channel it holds open breaks,
\* and the status callback of each logs CHANNEL_ERROR or CLOSED
Drop ==
  /\ \E ch \in DOMAIN client : client[ch].state \in {"joining", "joined"}
  /\ client' = [ch \in DOMAIN client |->
                  IF client[ch].state \in {"joining", "joined"}
                  THEN [client[ch] EXCEPT !.state = "errored"] ELSE client[ch]]
  /\ UNCHANGED <<channels, userId, made, stream, invoked, cleared, storevars, typevars>>

\* a reconnected client that lets go of the channels that broke
RejoinForgets(ch) ==
  /\ ch \in DOMAIN client /\ client[ch].state = "errored"
  /\ client' = RemoveChannel(client, ch)
  /\ UNCHANGED <<channels, userId, made, stream, invoked, cleared, storevars, typevars>>

\* the client is connected again and subscribes a broken channel that it
\* still holds once more, with the handlers and filter it was made with
Rejoin(ch) ==
  /\ ch \in DOMAIN client /\ client[ch].state = "errored"
  /\ client' = [client EXCEPT ![ch] = [@ EXCEPT !.state = "joining"]]
  /\ UNCHANGED <<channels, userId, made, stream, invoked, cleared, storevars, typevars>>

\* the messages that the committed changes have inserted and not deleted
Live(st) ==
  {m \in MsgIds : \E i \in 1..Len(st) :
     /\ st[i].msg = m /\ st[i].type = "INSERT"
     /\ \A j \in (i + 1)..Len(st) : ~(st[j].msg = m /\ st[j].type = "DELETE")}

\* the store commits a change of a row of table messages
Commit(type, m, cv) ==
  /\ Len(stream) < MaxEvents
  /\ IF type = "INSERT" THEN \A i \in 1..Len(stream) : stream[i].msg # m
     ELSE /\ m \in Live(stream)
          /\ \E i \in 1..Len(stream) : stream[i].msg = m /\ stream[i].conv = cv
  /\ stream' = Append(stream, Change(stream, type, m, cv))
  /\ UNCHANGED <<channels, userId, client, made, invoked, cleared, storevars, typevars>>

\* the committed changes that channel ch has still to get: those after the
\* last one it got that pass its filter conversation_id=eq.${conversationId}
Pending(ch) ==
  {i \in (client[ch].from + 1)..Len(stream) :
     client[ch].name[1] = "messages" /\ stream[i].conv = client[ch].name[2]}

\* the handlers of a channel without the one of INSERT events
OnChangeNoInsert(ch, i) ==
  IF stream[i].type = "INSERT" THEN invoked
  ELSE Append(invoked, [chan |-> ch, type |-> stream[i].type, msg |-> stream[i].msg,
                        conv |-> stream[i].conv, at |-> i,
                        row |-> IF stream[i].type = "DELETE" THEN stream[i].old
                                ELSE stream[i].new])

\* the handlers of a channel with the DELETE one reading payload.new
OnChangeDeleteNew(ch, i) ==
  Append(invoked, [chan |-> ch, type |-> stream[i].type, msg |-> stream[i].msg,
                   conv |-> stream[i].conv, at |-> i, row |-> stream[i].new])

\* the handler of the event of change i on channel ch: the callback of the
\* channel is called once, with the kind of the event and, as the message,
\* payload.new for INSERT and UPDATE and payload.old for DELETE
OnChange(ch, i) ==
  Append(invoked, [chan |-> ch, type |-> stream[i].type, msg |-> stream[i].msg,
                   conv |-> stream[i].conv, at |-> i,
                   row |-> IF stream[i].type = "DELETE" THEN stream[i].old
                           ELSE stream[i].new])

\* the handlers of a channel invoked out of order: any pending change
DeliverAnyPending(ch) ==
  /\ ch \in DOMAIN client /\ client[ch].state = "joined"
  /\ \E i \in Pending(ch) :
       /\ invoked' = OnChange(ch, i)
       /\ client' = [client EXCEPT ![ch] = [@ EXCEPT !.from = i]]
  /\ UNCHANGED <<channels, userId, made, stream, cleared, storevars, typevars>>

\* the client hands the next change to the handler of its event on the
\* channel, which calls onMessage({type, message, conversationId})
Deliver(ch) ==
  /\ ch \in DOMAIN client /\ client[ch].state = "joined"
  /\ Pending(ch) # {}
  /\ LET i == CHOOSE k \in Pending(ch) : \A j \in Pending(ch) : k <= j
     IN /\ invoked' = OnChange(ch, i)
        /\ client' = [client EXCEPT ![ch] = [@ EXCEPT !.from = i]]
  /\ UNCHANGED <<channels, userId, made, stream, cleared, storevars, typevars>>

\* --------------------------------------------------------- specifications
\* One conversation exists; any of the users may have joined it.
InitStore ==
  /\ conversations = {1}
  /\ \E S \in SUBSET Users : participants = {<<1, u>> : u \in S}
  /\ reactions = <<>>
  /\ reaction_counts = EmptyFn
  /\ call = [c \in Calls |-> Idle]
  /\ pre = NoSnapshot
  /\ started = 0
  /\ InitRealtime

Init ==
  /\ InitStore
  /\ messages = {}
  /\ faultsLeft = MaxFaults

\* a call made while no other call is in flight
Alone(start) ==
  Quiescent /\ pre' = Snapshot /\ UNCHANGED <<started, rtvars>> /\ start

\* a call made while other calls may be in flight
Overlapping(start) ==
  started < MaxStarted /\ started' = started + 1 /\ UNCHANGED <<pre, rtvars>> /\ start

SendSteps(c) == SendCheck(c) \/ SendInsert(c)

UpdateSteps(c) == UpdGet(c) \/ UpdCheck(c) \/ UpdUpdate(c)

ReactionSteps(c) ==
  \/ AddGet(c) \/ AddCheck(c) \/ AddExisting(c) \/ AddInsert(c)
  \/ RemGet(c) \/ RemCheck(c) \/ RemDelete(c)
  \/ RecomputeRead(c) \/ RecomputeUpsert(c)

CreateSteps(c) == CreateInsert(c) \/ CreateParticipants(c) \/ CreateCleanup(c)

\* Messages and reactions, the calls made one after another by any of the
\* users; store requests may fail; memberships change between calls.
Next ==
  \/ Alone(StartSend(1)) \/ Alone(StartAdd(1, Users)) \/ Alone(StartRemove(1, Users))
  \/ SendSteps(1) \/ ReactionSteps(1)
  \/ Return(1)
  \/ \E u \in Users, cv \in conversations : Quiescent /\ Leave(u, cv)

Spec == Init /\ [][Next]_vars

\* createConversation, the calls made one after another; store requests may fail.
NextCreate ==
  \/ Alone(StartCreate(1))
  \/ CreateSteps(1)
  \/ Return(1)
  \/ \E u \in Users, cv \in conversations : Quiescent /\ Leave(u, cv)

SpecCreate == Init /\ [][NextCreate]_vars

\* One call at a time, while the users leave the conversation at any moment.
InitRace ==
  /\ InitStore
  /\ messages = {}
  /\ faultsLeft = 0

NextRace ==
  \/ Alone(StartSend(1)) \/ Alone(StartUpdate(1)) \/ Alone(StartAdd(1, Users)) \/ Alone(StartRemove(1, Users))
  \/ SendSteps(1) \/ UpdateSteps(1) \/ ReactionSteps(1)
  \/ Return(1)
  \/ \E u \in Users, cv \in conversations : Leave(u, cv)

SpecRace == InitRace /\ [][NextRace]_vars

\* Reactions to one message by calls that overlap.
InitConc ==
  /\ InitStore
  /\ messages = {[id |-> 1, conversation_id |-> 1, sender_id |-> 1,
                  content |-> "hi", is_liked |-> FALSE]}
  /\ faultsLeft = 0

NextConc ==
  \E c \in Calls :
    \/ Overlapping(StartAdd(c, Users)) \/ Overlapping(StartRemove(c, Users))
    \/ ReactionSteps(c)
    \/ Return(c)

SpecConc == InitConc /\ [][NextConc]_vars

\* Reactions to one message by different users: every session makes its
\* calls one after another, and the calls of different sessions overlap.
SessionUser(c) == ((c - 1) % NumUsers) + 1

NextSessions ==
  \E c \in Calls :
    \/ Overlapping(StartAdd(c, {SessionUser(c)}))
    \/ Overlapping(StartRemove(c, {SessionUser(c)}))
    \/ ReactionSteps(c)
    \/ Return(c)

SpecSessions == InitConc /\ [][NextSessions]_vars


\* The reads, the calls made one after another by any of the users, on a
\* conversation with a message and a reaction to it; store requests may
\* fail; memberships change between calls.
InitReads ==
  /\ conversations = {1}
  /\ \E S \in SUBSET Users : participants = {<<1, u>> : u \in S}
  /\ messages = {[id |-> 1, conversation_id |-> 1, sender_id |-> 1,
                  content |-> "hi", is_liked |-> FALSE]}
  /\ reactions = <<[message_id |-> 1, user_id |-> 1, emoji |-> "up"]>>
  /\ reaction_counts = (1 :> FoldReactions(reactions))
  /\ call = [c \in Calls |-> Idle]
  /\ pre = NoSnapshot
  /\ started = 0
  /\ faultsLeft = MaxFaults
  /\ InitRealtime

ReadSteps(c) ==
  \/ GpRead(c) \/ GmCheck(c) \/ GmRead(c)
  \/ GcConversation(c) \/ GcParticipants(c)
  \/ GrGet(c) \/ GrCheck(c) \/ GrRead(c)

NextReads ==
  \/ Alone(StartGetParticipants(1)) \/ Alone(StartGetMessages(1)) \/ Alone(StartSearch(1))
  \/ Alone(StartGetConversation(1)) \/ Alone(StartGetReactions(1))
  \/ ReadSteps(1)
  \/ Return(1)
  \/ \E u \in Users, cv \in conversations : Quiescent /\ Leave(u, cv)

SpecReads == InitReads /\ [][NextReads]_vars

\* sendMessage and updateMessage, the calls made one after another by any of
\* the users; store requests may fail; memberships change between calls.
NextUpdate ==
  \/ Alone(StartSend(1)) \/ Alone(StartUpdate(1))
  \/ SendSteps(1) \/ UpdateSteps(1)
  \/ Return(1)
  \/ \E u \in Users, cv \in conversations : Quiescent /\ Leave(u, cv)

SpecUpdate == Init /\ [][NextUpdate]_vars

\* Overlapping reaction calls of different sessions, with store failures.
InitHeal ==
  /\ InitStore
  /\ messages = {[id |-> 1, conversation_id |-> 1, sender_id |-> 1,
                  content |-> "hi", is_liked |-> FALSE]}
  /\ faultsLeft = MaxFaults

NextHeal ==
  \E c \in Calls :
    \/ Overlapping(StartAdd(c, {SessionUser(c)}))
    \/ Overlapping(StartRemove(c, {SessionUser(c)}))
    \/ ReactionSteps(c)
    \/ Return(c)

SpecHeal == InitHeal /\ [][NextHeal]_vars

\* RealtimeService: the methods called in any order, the realtime client
\* acknowledging, failing and delivering at any moment.
InitRt == InitStore /\ messages = {} /\ faultsLeft = 0

NextRt ==
  \/ \E u \in Users : Initialize(u)
  \/ \E cv \in 1..MaxConvs : SubscribeToMessages(cv)
  \/ \E n \in ChannelNames : Unsubscribe(n)
  \/ UnsubscribeAll
  \/ Cleanup
  \/ \E ch \in DOMAIN client : Acknowledged(ch)
  \/ \E ch \in DOMAIN client : ChannelError(ch)
  \/ \E ch \in DOMAIN client : Deliver(ch)
  \/ \E t \in {"INSERT", "UPDATE", "DELETE"}, m \in MsgIds, cv \in 1..MaxConvs : Commit(t, m, cv)

SpecRt == InitRt /\ [][NextRt]_vars

\* A session whose connection drops and comes back while other clients
\* change messages. The transport reconnects: a broken channel that the
\* client holds is subscribed again, and a connection that keeps coming back
\* stays up long enough for the acknowledgement.
NextReconnect ==
  \/ \E cv \in 1..MaxConvs : SubscribeToMessages(cv)
  \/ \E n \in ChannelNames : Unsubscribe(n)
  \/ \E ch \in DOMAIN client : Acknowledged(ch)
  \/ Drop
  \/ \E ch \in DOMAIN client : Rejoin(ch)
  \/ \E ch \in DOMAIN client : Deliver(ch)
  \/ \E t \in {"INSERT", "UPDATE", "DELETE"}, m \in MsgIds, cv \in 1..MaxConvs : Commit(t, m, cv)

InitReconnect == InitRt /\ participants = {<<1, u>> : u \in Users}

SpecReconnect ==
  /\ InitReconnect /\ [][NextReconnect]_vars
  /\ \A ch \in 1..MaxChannels : WF_vars(Rejoin(ch)) /\ SF_vars(Acknowledged(ch))

\* Typing indicators: a session that signs in and out, subscribes to the
\* typing of a conversation and calls sendTyping, while a session of another
\* client, of any user, tracks and removes its record.
InitTyping == InitRt /\ participants = {<<1, u>> : u \in Users}

NextTyping ==
  \/ \E u \in Users : Initialize(u)
  \/ \E cv \in conversations : SubscribeToTyping(cv)
  \/ \E n \in TypingNames : Unsubscribe(n)
  \/ Cleanup
  \/ \E ch \in DOMAIN client : Acknowledged(ch)
  \/ \E cv \in 1..MaxConvs, n \in Names, t \in BOOLEAN : SendTyping(cv, n, t)
  \/ \E cv \in conversations, u \in Users, t \in BOOLEAN : RemoteTrack(1, cv, u, t)
  \/ RemoteLeave(1)
  \/ \E ch \in DOMAIN client : TypingSync(ch)

SpecTyping == InitTyping /\ [][NextTyping]_vars

\* The typing of a conversation as a signed-in session sees it, while the
\* sessions of other clients, of any users, track and remove their records.
\* The channel hands every sync event to the handler of a channel that
\* stays joined.
NextPresence ==
  \/ \E u \in Users : Initialize(u)
  \/ \E cv \in conversations : SubscribeToTyping(cv)
  \/ \E n \in TypingNames : Unsubscribe(n)
  \/ \E ch \in DOMAIN client : Acknowledged(ch)
  \/ \E r \in Remotes, cv \in conversations, u \in Users, t \in BOOLEAN : RemoteTrack(r, cv, u, t)
  \/ \E r \in Remotes : RemoteLeave(r)
  \/ \E ch \in DOMAIN client : TypingSync(ch)

SpecPresence ==
  InitTyping /\ [][NextPresence]_vars /\ \A ch \in 1..MaxChannels : WF_vars(TypingSync(ch))

\* sendMessage calls of any user while a session subscribes to and
\* unsubscribes from the messages of conversations; store requests may fail.
\* The realtime server hands every committed change to the channels joined
\* on it: a channel that stays joined gets its next change.
NextFanout ==
  \/ Alone(StartSend(1)) \/ SendSteps(1) \/ Return(1)
  \/ \E cv \in 1..MaxConvs : SubscribeToMessages(cv)
  \/ \E n \in ChannelNames : Unsubscribe(n)
  \/ \E ch \in DOMAIN client : Acknowledged(ch)
  \/ \E ch \in DOMAIN client : ChannelError(ch)
  \/ \E ch \in DOMAIN client : Deliver(ch)

SpecFanout ==
  Init /\ [][NextFanout]_vars /\ \A ch \in 1..MaxChannels : WF_vars(Deliver(ch))

\* ------------------------------------------------------------- properties
Range(f) == {f[i] : i \in DOMAIN f}

\* the users who hold a reaction row (m, u, e)
Holders(rows, m, e) ==
  {u \in Users : \E i \in 1..Len(rows) :
     rows[i] = [message_id |-> m, user_id |-> u, emoji |-> e]}

\* counts a is the fold of the rows of message m
Matches(a, rows, m) ==
  /\ DOMAIN a = {e \in Emojis : Holders(rows, m, e) # {}}
  /\ \A e \in DOMAIN a :
       /\ a[e].count = Cardinality(Holders(rows, m, e))
       /\ Len(a[e].userIds) = a[e].count
       /\ Range(a[e].userIds) = Holders(rows, m, e)

AggregateMatches(m) == Matches(CountsOf(m), reactions, m)

PreCountsOf(m) ==
  IF m \in DOMAIN pre.reaction_counts THEN pre.reaction_counts[m] ELSE EmptyFn

\* the same counts and the same users, whatever the order of userIds
SameCounts(a, b) ==
  /\ DOMAIN a = DOMAIN b
  /\ \A e \in DOMAIN a : a[e].count = b[e].count /\ Range(a[e].userIds) = Range(b[e].userIds)

Returned(c, op) == call[c].op = op /\ call[c].pc = "done"

\* the acting user of call c may see message call[c].msg
ParticipantOfMessage(c) ==
  \E m \in messages : m.id = call[c].msg /\ IsParticipant(m.conversation_id, call[c].user)

HadRow(c) == \E i \in 1..Len(pre.reactions) : pre.reactions[i] = Triple(c)

\* C1: sendMessage by a user with no participant row for the conversation
\* fails, with a not-authorized error when none of its store requests failed,
\* and the message rows are those of before the call.
C1_NonParticipantSendRejected ==
  \A c \in Calls :
    (Returned(c, "sendMessage") /\ ~IsParticipant(call[c].conv, call[c].user))
      => /\ call[c].result # Ok
         /\ messages = pre.messages
         /\ (call[c].faulted = "" => call[c].result \in NotAuthorized)

C1_Witness ==
  \E c \in Calls :
    /\ Returned(c, "sendMessage") /\ ~IsParticipant(call[c].conv, call[c].user)
    /\ call[c].faulted = "" /\ call[c].result = NotAuthView
    /\ \E u \in Users : IsParticipant(call[c].conv, u)

C3_WritesOnlyByParticipants ==
  [][\A c \in Calls :
       (/\ call[c].pc \in {"send_insert", "upd_update", "add_insert", "rem_delete"}
        /\ ~IsParticipant(call[c].conv, call[c].user))
         => (messages' = messages /\ reactions' = reactions)]_vars

C3_Witness ==
  \E c \in Calls :
    /\ Returned(c, "sendMessage") /\ call[c].result = RlsViolation
    /\ ~IsParticipant(call[c].conv, call[c].user)
    /\ messages = {}

\* C4: after add/remove calls made one after another with no store failure,
\* the aggregate of every message has, per emoji, the number and the set of
\* the users holding a row with it, and no entry for an emoji without rows.
C4_SequentialAggregateMatches ==
  (faultsLeft = MaxFaults /\ \A c \in Calls : call[c].pc \in {"idle", "done"})
    => \A m \in MsgIds : AggregateMatches(m)

C4_Witness ==
  \E c \in Calls :
    /\ faultsLeft = MaxFaults
    /\ Returned(c, "removeReaction") /\ call[c].result = Ok
    /\ Len(pre.reactions) = 3 /\ Len(reactions) = 2
    /\ DOMAIN CountsOf(call[c].msg) = {"up"}
    /\ CountsOf(call[c].msg)["up"].count = 2

\* C5: whenever no call is in flight, the aggregate of every message is the
\* fold of its reaction rows.
C5_QuiescentAggregateMatches ==
  Quiescent => \A m \in MsgIds : AggregateMatches(m)

\* C6: addReaction for a row that exists fails, with "Reaction already
\* exists" when the user is a participant and none of its store requests
\* failed, and leaves the reaction rows and the aggregates as they were.
C6_DuplicateAddRejected ==
  \A c \in Calls :
    (Returned(c, "addReaction") /\ HadRow(c))
      => /\ call[c].result # Ok
         /\ reactions = pre.reactions
         /\ reaction_counts = pre.reaction_counts
         /\ (call[c].faulted = "" /\ ParticipantOfMessage(c)
               => call[c].result = ReactionExists)

C6_Witness ==
  \E c \in Calls :
    /\ Returned(c, "addReaction") /\ HadRow(c)
    /\ call[c].result = ReactionExists
    /\ call[c].emoji \in DOMAIN CountsOf(call[c].msg)
    /\ CountsOf(call[c].msg)[call[c].emoji].count = 1

\* a removeReaction by a participant, for a row that does not exist, none of
\* whose store requests failed, has returned
NoOpRemoveReturned(c) ==
  /\ Returned(c, "removeReaction") /\ ~HadRow(c)
  /\ ParticipantOfMessage(c) /\ call[c].faulted = ""

\* C7 as stated: removeReaction for a row that does not exist returns
\* success, deletes no row and leaves the counts of the message unchanged.
C7_NoOpRemoveLeavesAggregate ==
  \A c \in Calls :
    NoOpRemoveReturned(c)
      => /\ call[c].result = Ok
         /\ reactions = pre.reactions
         /\ SameCounts(CountsOf(call[c].msg), PreCountsOf(call[c].msg))

\* C7 amended: removeReaction for a row that does not exist returns success,
\* deletes no row and leaves the counts of the message equal to the fold of
\* its rows: unchanged when they matched the rows before, replaced by the
\* fold when an earlier recompute had left them stale.
C7_NoOpRemoveRecomputes ==
  \A c \in Calls :
    NoOpRemoveReturned(c)
      => /\ call[c].result = Ok
         /\ reactions = pre.reactions
         /\ AggregateMatches(call[c].msg)
         /\ (Matches(PreCountsOf(call[c].msg), pre.reactions, call[c].msg)
               => SameCounts(CountsOf(call[c].msg), PreCountsOf(call[c].msg)))

C7_Witness ==
  \E c \in Calls :
    /\ NoOpRemoveReturned(c) /\ call[c].result = Ok
    /\ Len(reactions) > 0
    /\ ~Matches(PreCountsOf(call[c].msg), pre.reactions, call[c].msg)

\* C8: the reaction table never holds two rows with the same message, user
\* and emoji.
C8_AtMostOneRowPerTriple ==
  \A i, j \in 1..Len(reactions) : reactions[i] = reactions[j] => i = j

C8_Witness ==
  \E c, d \in Calls :
    /\ c # d /\ Triple(c) = Triple(d)
    /\ Returned(c, "addReaction") /\ call[c].result = UniqueViolation
    /\ call[d].op = "addReaction" /\ call[d].pc \in {"rc_read", "rc_upsert", "done"}

InAggregate(c) ==
  /\ call[c].emoji \in DOMAIN CountsOf(call[c].msg)
  /\ call[c].user \in Range(CountsOf(call[c].msg)[call[c].emoji].userIds)

HasRow(c) == \E i \in 1..Len(reactions) : reactions[i] = Triple(c)

\* C9 as stated: when addReaction or removeReaction has returned success
\* and no other call is in flight, the aggregate shows the caller's reaction
\* row if it was added and does not show it if it was removed.
C9_ReadAfterWrite ==
  \A c \in Calls :
    (/\ call[c].pc = "done" /\ call[c].result = Ok
     /\ \A d \in Calls \ {c} : call[d].pc = "idle")
      => /\ (call[c].op = "addReaction" /\ HasRow(c) => InAggregate(c))
         /\ (call[c].op = "removeReaction" /\ ~HasRow(c) => ~InAggregate(c))

\* C9 amended: when addReaction or removeReaction has returned success, none
\* of the store requests of its recompute failed and no other call is in
\* flight, the aggregate shows the caller's reaction row if it was added
\* and does not show it if it was removed.
C9_ReadAfterWriteUnlessRecomputeFailed ==
  \A c \in Calls :
    (/\ call[c].pc = "done" /\ call[c].result = Ok
     /\ call[c].faulted \notin {"rc_read", "rc_upsert"}
     /\ \A d \in Calls \ {c} : call[d].pc = "idle")
      => /\ (call[c].op = "addReaction" /\ HasRow(c) => InAggregate(c))
         /\ (call[c].op = "removeReaction" /\ ~HasRow(c) => ~InAggregate(c))

C9_Witness ==
  \E c \in Calls :
    /\ Returned(c, "removeReaction") /\ call[c].result = Ok
    /\ call[c].faulted = ""
    /\ HadRow(c) /\ ~HasRow(c)
    /\ call[c].emoji \in DOMAIN PreCountsOf(call[c].msg)
    /\ ~InAggregate(c)

\* C10: a store request of the recompute that fails ends the call with
\* success and changes neither the reaction rows nor the aggregates.
C10_RecomputeFailureSwallowed ==
  [][\A c \in Calls :
       (call[c].pc \in {"rc_read", "rc_upsert"} /\ faultsLeft' < faultsLeft)
         => /\ call'[c].pc = "done" /\ call'[c].result = Ok
            /\ reactions' = reactions
            /\ reaction_counts' = reaction_counts]_vars

C10_Witness ==
  \E c \in Calls :
    /\ Returned(c, "addReaction") /\ call[c].result = Ok
    /\ call[c].faulted \in {"rc_read", "rc_upsert"}
    /\ HasRow(c) /\ ~InAggregate(c)
    /\ reaction_counts = pre.reaction_counts

\* the rows as they are after the call's own insert or delete, and as they
\* were before it
WithOwn(c, rows) ==
  IF \E i \in 1..Len(rows) : rows[i] = Triple(c) THEN rows ELSE Append(rows, Triple(c))

WithoutOwn(c, rows) == SelectSeq(rows, LAMBDA r : r # Triple(c))

\* the counts that the recompute of call c found were those of neither
WasStale(c) ==
  /\ ~Matches(call[c].before, WithOwn(c, call[c].seen), call[c].msg)
  /\ ~Matches(call[c].before, WithoutOwn(c, call[c].seen), call[c].msg)

\* C11: a recompute whose read and upsert both succeed, with the reaction
\* rows of the message at the upsert those it read, leaves the aggregate
\* equal to the fold of the rows, whatever the aggregate was before (stale
\* from an overlapping recompute or from a failed one).
C11_NextRecomputeHeals ==
  [][\A c \in Calls :
       (/\ call[c].pc = "rc_upsert" /\ call'[c].pc = "done"
        /\ faultsLeft' = faultsLeft
        /\ RowsOf(reactions, call[c].msg) = call[c].seen)
         => Matches(IF call[c].msg \in DOMAIN reaction_counts'
                    THEN reaction_counts'[call[c].msg] ELSE EmptyFn,
                    reactions', call[c].msg)]_vars

C11_Witness ==
  \E c \in Calls :
    /\ call[c].pc = "done" /\ call[c].result = Ok /\ call[c].faulted = ""
    /\ call[c].op \in {"addReaction", "removeReaction"}
    /\ WasStale(c) /\ call[c].alone
    /\ RowsOf(reactions, call[c].msg) = call[c].seen
    /\ AggregateMatches(call[c].msg)
    /\ Len(reactions) > 0

\* the counts of message m after the step
CountsOfNext(m) == IF m \in DOMAIN reaction_counts' THEN reaction_counts'[m] ELSE EmptyFn

\* C12: a recompute whose read and upsert succeed writes the fold of the
\* rows it read, whatever the counts were before; when the counts were
\* already the fold of the rows, the recompute leaves them as they were.
C12_RecomputeIsFullReplace ==
  [][\A c \in Calls :
       (/\ call[c].pc = "rc_upsert" /\ call'[c].pc = "done"
        /\ faultsLeft' = faultsLeft)
         => /\ CountsOfNext(call[c].msg) = FoldReactions(call[c].seen)
            /\ (CountsOf(call[c].msg) = FoldReactions(call[c].seen)
                  => CountsOfNext(call[c].msg) = CountsOf(call[c].msg))]_vars

\* a recompute repeated on unchanged rows: a removeReaction that found no
\* row, after a call that had left the counts equal to the fold
C12_Witness ==
  \E c \in Calls :
    /\ NoOpRemoveReturned(c) /\ call[c].result = Ok
    /\ Len(reactions) > 0 /\ reactions = pre.reactions
    /\ PreCountsOf(call[c].msg) = FoldReactions(RowsOf(pre.reactions, call[c].msg))
    /\ CountsOf(call[c].msg) = PreCountsOf(call[c].msg)

\* the message rows with the id of call c's message, before the call
PreMessage(c) == {m \in pre.messages : m.id = call[c].msg}

\* C13: updateMessage, none of whose store requests failed, fails with
\* "Message not found" when no message row has the id and with "Not
\* authorized to update this message" when the acting user has no
\* participant row for the message's conversation; the message rows are
\* those of before the call.
C13_UpdateMessageErrors ==
  \A c \in Calls :
    (Returned(c, "updateMessage") /\ call[c].faulted = "")
      => /\ (PreMessage(c) = {}
               => call[c].result = MessageNotFound /\ messages = pre.messages)
         /\ (\A m \in PreMessage(c) :
               ~IsParticipant(m.conversation_id, call[c].user)
                 => call[c].result = NotAuthUpdate /\ messages = pre.messages)

\* C14: sendMessage with empty content by a participant fails, and the
\* message rows are those of before the call.
C14_EmptyContentRejected ==
  \A c \in Calls :
    (/\ Returned(c, "sendMessage") /\ call[c].content = ""
     /\ IsParticipant(call[c].conv, call[c].user))
      => call[c].result # Ok /\ messages = pre.messages

\* C15: updateMessage by a participant of the message's conversation, the
\* sender or not, none of whose store requests failed, succeeds and the
\* message row carries the patch.
C15_UpdateByAnyParticipant ==
  \A c \in Calls :
    (/\ Returned(c, "updateMessage") /\ call[c].faulted = ""
     /\ \E m \in PreMessage(c) : IsParticipant(m.conversation_id, call[c].user))
      => /\ call[c].result = Ok
         /\ \A m \in messages : m.id = call[c].msg => m.is_liked = call[c].patch

\* the channels that the client holds for a channel name
Held(cl, name) == {ch \in InClient(cl) : cl[ch].name = name}

\* C16: after every step, the client holds at most one channel per channel
\* name, the one the map has for the name; a callback invoked in the step
\* is the one of the last subscribe call for the name.
C16_OneSubscriptionPerTopic ==
  [][/\ \A name \in ChannelNames :
          Held(client', name) = IF name \in DOMAIN channels' THEN {channels'[name]} ELSE {}
     /\ (invoked' # invoked
          => LET e == invoked'[Len(invoked')]
                 name == MessagesChannel(e.conv)
             IN /\ name \in DOMAIN channels /\ e.chan = channels[name]
                /\ \A ch \in 1..made : ch > e.chan => ch \notin Held(client, name))]_vars

\* a name subscribed twice: the callback of the first call was invoked, then
\* the one of the second call
C16_Witness ==
  \E i, j \in 1..Len(invoked) :
    /\ i < j /\ invoked[i].conv = invoked[j].conv
    /\ invoked[i].chan < invoked[j].chan
    /\ invoked[j].chan \in InClient(client)
    /\ invoked[i].chan \notin InClient(client)

\* C17: unsubscribeAll() and cleanup() leave the map empty and none of its
\* channels in the client; a channel out of the client stays out; and no
\* callback of a channel created before the last unsubscribeAll() is
\* invoked afterwards.
C17_UnsubscribeAllTearsDown ==
  [][/\ (cleared' # cleared \/ UnsubscribeAll \/ Cleanup)
          => /\ channels' = EmptyFn
             /\ \A n \in DOMAIN channels : channels[n] \notin InClient(client')
             /\ \A ch \in InClient(client') : client'[ch] = client[ch]
     /\ \A ch \in 1..made : ch \notin InClient(client) => ch \notin InClient(client')
     /\ (invoked' # invoked => invoked'[Len(invoked')].chan > cleared)]_vars

\* at least two channels created before the last unsubscribeAll() or
\* cleanup(), a change committed afterwards, no callback invoked for it
C17_Witness ==
  /\ cleared >= 2 /\ channels = EmptyFn /\ InClient(client) = {} /\ userId = 0
  /\ Len(invoked) >= 1
  /\ \E i \in 1..Len(stream) : \A k \in 1..Len(invoked) : invoked[k].at < i

\* C18: a name taken out of the map while its subscription was not yet
\* acknowledged leaves no channel of the name in the client; a closed
\* channel stays closed and out of the map whatever arrives later; an
\* entry of the map is only made by a subscribe call, for its new channel;
\* and no callback of a closed channel is invoked.
C18_SubscribeThenUnsubscribe ==
  [][/\ \A name \in DOMAIN channels :
          (client[channels[name]].state = "joining" /\ name \notin DOMAIN channels')
            => Held(client', name) = {}
     /\ \A ch \in DOMAIN client :
          client[ch].state = "closed"
            => /\ client'[ch].state = "closed"
               /\ \A n \in DOMAIN channels' : channels'[n] # ch
     /\ \A name \in DOMAIN channels' :
          (name \notin DOMAIN channels \/ channels'[name] # channels[name])
            => made' = made + 1 /\ channels'[name] = made'
     /\ (invoked' # invoked
          => client[invoked'[Len(invoked')].chan].state = "joined")]_vars

\* a channel unsubscribed before its acknowledgement, a change of its
\* conversation committed afterwards, no callback invoked
C18_Witness ==
  /\ made = 1 /\ channels = EmptyFn /\ invoked = <<>>
  /\ client[1].state = "closed" /\ ~client[1].joinedOnce
  /\ \E i \in 1..Len(stream) : stream[i].conv = client[1].name[2]

\* the state of a channel name: that of the channel the map has for it
TopicState(map, cl, name) ==
  IF name \notin DOMAIN map THEN "Unsubscribed"
  ELSE CASE cl[map[name]].state = "joining" -> "Subscribing"
         [] cl[map[name]].state = "joined" -> "Active"
         [] cl[map[name]].state = "errored" -> "Error"
         [] OTHER -> "Closed"

\* a callback is invoked in the step only for a name that is Active
InvokedWhileActive ==
  invoked' # invoked
    => LET e == invoked'[Len(invoked')]
       IN /\ TopicState(channels, client, MessagesChannel(e.conv)) = "Active"
          /\ channels[MessagesChannel(e.conv)] = e.chan

\* C19 as stated: the state of a name changes only from Unsubscribed to
\* Subscribing, from Subscribing to Active and from Active to Error or
\* Unsubscribed; a callback is invoked only while its name is Active.
C19_TopicStateMachine ==
  [][/\ \A name \in ChannelNames :
          LET a == TopicState(channels, client, name)
              b == TopicState(channels', client', name)
          IN a # b => <<a, b>> \in {<<"Unsubscribed", "Subscribing">>,
                                    <<"Subscribing", "Active">>,
                                    <<"Active", "Error">>,
                                    <<"Active", "Unsubscribed">>}
     /\ InvokedWhileActive]_vars

\* C19 amended: a name leaves Unsubscribed only for Subscribing and becomes
\* Active only from Subscribing; from Subscribing, Active and Error it may
\* go to Unsubscribed (unsubscribe) and, Subscribing and Active, to Error;
\* from Active and Error it may go back to Subscribing (subscribe again); a
\* callback is invoked only while its name is Active.
C19_TopicStateMachineAmended ==
  [][/\ \A name \in ChannelNames :
          LET a == TopicState(channels, client, name)
              b == TopicState(channels', client', name)
          IN a # b => <<a, b>> \in {<<"Unsubscribed", "Subscribing">>,
                                    <<"Subscribing", "Active">>,
                                    <<"Subscribing", "Error">>,
                                    <<"Subscribing", "Unsubscribed">>,
                                    <<"Active", "Error">>,
                                    <<"Active", "Unsubscribed">>,
                                    <<"Active", "Subscribing">>,
                                    <<"Error", "Unsubscribed">>,
                                    <<"Error", "Subscribing">>}
     /\ InvokedWhileActive]_vars

\* a name that is Active and has had a callback invoked, another channel
\* closed while Subscribing or in Error without ever being Active
C19_Witness ==
  /\ \E name \in DOMAIN channels :
       /\ TopicState(channels, client, name) = "Active"
       /\ \E k \in 1..Len(invoked) : invoked[k].chan = channels[name]
  /\ \E ch \in DOMAIN client : client[ch].state = "closed" /\ ~client[ch].joinedOnce

\* C20: the callback of a channel is invoked for the changes of its
\* conversation in the order of their commit, with none left out in
\* between, whatever their kinds: an INSERT committed before an UPDATE or
\* DELETE that the callback gets is got first.
C20_CommitOrderDelivery ==
  \A k \in 1..Len(invoked) :
    LET e == invoked[k]
    IN /\ e.at \in 1..Len(stream)
       /\ stream[e.at].type = e.type /\ stream[e.at].msg = e.msg
       /\ stream[e.at].conv = e.conv
       /\ e.conv = client[e.chan].name[2]
       /\ e.at > client[e.chan].since
       /\ ((\A j \in 1..(k - 1) : invoked[j].chan # e.chan)
             => \A i \in (client[e.chan].since + 1)..(e.at - 1) : stream[i].conv # e.conv)
       /\ \A j \in 1..(k - 1) :
            invoked[j].chan = e.chan
              => /\ invoked[j].at < e.at
                 /\ \A i \in (invoked[j].at + 1)..(e.at - 1) :
                      stream[i].conv = e.conv
                        => \E h \in (j + 1)..(k - 1) :
                             invoked[h].chan = e.chan /\ invoked[h].at = i

\* a callback that got the INSERT of a message and then its UPDATE or DELETE
C20_Witness ==
  \E j, k \in 1..Len(invoked) :
    /\ j < k /\ invoked[j].chan = invoked[k].chan
    /\ invoked[j].msg = invoked[k].msg
    /\ invoked[j].type = "INSERT" /\ invoked[k].type \in {"UPDATE", "DELETE"}

\* channel ch is joined
Joined(ch) == ch \in DOMAIN client /\ client[ch].state = "joined"

\* sendMessage has returned message m with success, and channel ch is
\* joined on the messages of its conversation since before the insert
SentWhileActive(ch, m) ==
  /\ Returned(1, "sendMessage") /\ call[1].result = Ok /\ call[1].msg = m
  /\ Joined(ch) /\ client[ch].name = MessagesChannel(call[1].conv)
  /\ \E i \in (client[ch].since + 1)..Len(stream) :
       stream[i].type = "INSERT" /\ stream[i].msg = m

\* the callback of channel ch has been invoked with the INSERT of message m
GotInsert(ch, m) ==
  \E k \in 1..Len(invoked) :
    invoked[k].chan = ch /\ invoked[k].type = "INSERT" /\ invoked[k].msg = m

\* C21: once sendMessage has returned a message with success, the callback
\* of every channel that was joined on the messages of its conversation at
\* the insert is eventually invoked with the INSERT of the message, unless
\* the channel stops being joined (unsubscribed, replaced or disconnected).
C21_InsertEventuallyDelivered ==
  \A ch \in 1..MaxChannels, m \in MsgIds :
    SentWhileActive(ch, m) ~> (GotInsert(ch, m) \/ ~Joined(ch))

\* sendMessage has returned while the callback of a joined channel has not
\* yet been invoked with the INSERT
C21_Witness ==
  \E ch \in DOMAIN client, m \in MsgIds : SentWhileActive(ch, m) /\ ~GotInsert(ch, m)

\* channel ch takes a change notification in the step: the one at from'
Notified(ch) ==
  /\ Joined(ch) /\ ch \in DOMAIN client' /\ client'[ch].state = "joined"
  /\ client'[ch].from # client[ch].from

\* C22: a change notification of table messages taken by a channel invokes
\* the callback of the channel exactly once, with the kind of the
\* notification and, as the message, its new row for INSERT and UPDATE and
\* its old row for DELETE; the callback is invoked for nothing else, and
\* never for a change of a conversation other than the one of its channel.
C22_OneCallbackPerNotification ==
  [][/\ \A ch \in DOMAIN client :
          Notified(ch)
            => LET n == stream[client'[ch].from]
               IN invoked' = Append(invoked,
                      [chan |-> ch, type |-> n.type, msg |-> n.msg, conv |-> n.conv,
                       at |-> client'[ch].from,
                       row |-> IF n.type = "DELETE" THEN n.old ELSE n.new])
     /\ invoked' # invoked
          => /\ \E ch \in DOMAIN client : Notified(ch)
             /\ LET e == invoked'[Len(invoked')]
                IN /\ client[e.chan].name = MessagesChannel(stream[e.at].conv)
                   /\ e.row # 0
                   /\ \A k \in 1..Len(invoked) :
                        ~(invoked[k].chan = e.chan /\ invoked[k].at = e.at)]_vars

\* a callback invoked with the old row of a DELETE while a channel joined
\* on another conversation before the change is not invoked for it
C22_Witness ==
  \E k \in 1..Len(invoked) :
    /\ invoked[k].type = "DELETE" /\ invoked[k].row # 0
    /\ \E j \in 1..Len(invoked) : invoked[j].type = "INSERT" /\ invoked[j].row = 1
    /\ \E ch \in DOMAIN client :
         /\ Joined(ch) /\ client[ch].name # MessagesChannel(invoked[k].conv)
         /\ client[ch].since < invoked[k].at
         /\ \A j \in 1..Len(invoked) : invoked[j].chan # ch

\* the channel of a name in the map is broken
Broken(name) == name \in DOMAIN channels /\ client[channels[name]].state = "errored"

Synced(ch) ==
  /\ ch \in unsynced /\ ch \notin unsynced'
  /\ ch \in DOMAIN heard' /\ client[ch].state = "joined"

\* C24: no list that onTypingChange is called with holds the userId that
\* the service has at the call, whatever records the presence channel
\* holds: the session's own record, records of other sessions of the same
\* user or records under any key.
C24_OwnUserNeverListed ==
  [][\A ch \in DOMAIN client :
       Synced(ch) => \A e \in heard'[ch].list : e.userId # userId]_vars

\* the callback got a list of other users while the session's own record,
\* tracked with its present userId, has typing set
C24_Witness ==
  \E ch \in DOMAIN heard :
    /\ ch \notin unsynced /\ heard[ch].list # {}
    /\ <<"local", ch>> \in Present(client[ch].name[2])
    /\ presence[<<"local", ch>>].typing /\ presence[<<"local", ch>>].userId = userId

\* the users other than uid with a record in the presence channel of
\* conversation cv that has typing set
OthersTyping(cv, uid) ==
  {[userId |-> presence[o].userId, username |-> presence[o].username] :
     o \in {p \in Present(cv) : presence[p].typing /\ presence[p].userId # uid}}

\* C25: at every sync event of a typing channel, onTypingChange is called
\* with exactly the {userId, username} of the other users who have a
\* presence record with typing set in the conversation.
C25_ExactTypingSet ==
  [][\A ch \in DOMAIN client :
       Synced(ch) => heard'[ch].list = OthersTyping(client[ch].name[2], userId)]_vars

\* the typing channel of conversation cv in the map is joined
JoinedOn(cv) ==
  TypingChannel(cv) \in DOMAIN channels /\ Joined(channels[TypingChannel(cv)])

\* session r of another client disconnected while marked typing, and the
\* typing channel of its conversation is joined
GoneTyping(r) ==
  /\ <<"remote", r>> \in DOMAIN presence /\ presence[<<"remote", r>>].gone
  /\ JoinedOn(presence[<<"remote", r>>].conv)

\* the callback of the typing channel of the conversation of session r has
\* got the list of the last sync event, and the user of r is not in it
HeardWithout(r) ==
  LET ch == channels[TypingChannel(presence[<<"remote", r>>].conv)]
  IN /\ ch \notin unsynced /\ ch \in DOMAIN heard
     /\ \A e \in heard[ch].list : e.userId # presence[<<"remote", r>>].userId

\* another session has a record of the user of session r with typing set
\* in its conversation
StillTyping(r) ==
  \E o \in Present(presence[<<"remote", r>>].conv) :
    presence[o].typing /\ presence[o].userId = presence[<<"remote", r>>].userId

\* C26 as stated: after a session marked typing disconnects, the callback
\* of a typing channel that stays joined on the conversation eventually
\* gets a list without the user of that session.
C26_DisconnectClearsTyping ==
  \A r \in Remotes : GoneTyping(r) ~> (~GoneTyping(r) \/ HeardWithout(r))

\* C26: after a session marked typing disconnects, the callback of a
\* typing channel that stays joined on the conversation eventually gets a
\* list without the user of that session, unless another session of the
\* user is marked typing.
C26_DisconnectClearsTypingAmended ==
  \A r \in Remotes : GoneTyping(r) ~> (~GoneTyping(r) \/ HeardWithout(r) \/ StillTyping(r))

\* a session of a user other than the subscriber's disconnected while
\* marked typing, and the callback has got a list of other users since
C26_Witness ==
  \E r \in Remotes :
    /\ GoneTyping(r) /\ HeardWithout(r) /\ presence[<<"remote", r>>].userId # userId
    /\ heard[channels[TypingChannel(presence[<<"remote", r>>].conv)]].list # {}

ReadOps ==
  {"getMessages", "searchMessages", "getConversationParticipants", "getConversation",
   "getMessageReactions"}

\* the errors of the reads that say the user is not authorized
ReadNotAuthorized ==
  {NotAuthView, NotAuthMessages, NotAuthSearch, NotAuthConversation, NotAuthReactions}

\* the conversation that read call c asks about, if it exists
AskedConversation(c) ==
  IF call[c].op = "getMessageReactions"
  THEN {m.conversation_id : m \in {x \in messages : x.id = call[c].msg}}
  ELSE {call[c].conv} \cap conversations

\* C27: a read (getMessages, searchMessages, getConversationParticipants,
\* getConversation, getMessageReactions), none of whose store requests
\* failed, by a user with no participant row for the conversation returns
\* an authorization error and no data.
C27_ReadsRejectNonParticipants ==
  \A c \in Calls :
    (call[c].op \in ReadOps /\ call[c].pc = "done" /\ call[c].faulted = ""
       /\ \E cv \in AskedConversation(c) : ~IsParticipant(cv, call[c].user))
      => call[c].result \in ReadNotAuthorized /\ call[c].data = {}

\* the users listed for emoji e in counts a
UsersOf(a, e) == IF e \in DOMAIN a THEN Range(a[e].userIds) ELSE {}

\* the reaction rows are those of before call c, but for its own triple
OnlyOwnTripleGone(c) ==
  reactions = SelectSeq(pre.reactions, LAMBDA r : r \in Range(reactions) \/ r # Triple(c))

\* C28 as stated: removeReaction leaves every reaction row but that of its
\* own message, user and emoji as it was, and after a successful call the
\* aggregate entry of its emoji lists the users it listed before without
\* the caller.
C28_RemoveTouchesOneRow ==
  \A c \in Calls :
    Returned(c, "removeReaction")
      => /\ OnlyOwnTripleGone(c)
         /\ call[c].result = Ok
              => UsersOf(CountsOf(call[c].msg), call[c].emoji)
                   = UsersOf(PreCountsOf(call[c].msg), call[c].emoji) \ {call[c].user}

\* C28 amended: removeReaction leaves every reaction row but that of its own
\* message, user and emoji as it was, and after a successful call none of
\* whose recompute requests failed the aggregate entry of its emoji lists
\* the other users who hold a row for it: the users it listed before
\* without the caller, when it matched the rows before.
C28_RemoveTouchesOneRowAmended ==
  \A c \in Calls :
    Returned(c, "removeReaction")
      => /\ OnlyOwnTripleGone(c)
         /\ (call[c].result = Ok /\ call[c].faulted \notin {"rc_read", "rc_upsert"})
              => /\ UsersOf(CountsOf(call[c].msg), call[c].emoji)
                      = Holders(pre.reactions, call[c].msg, call[c].emoji) \ {call[c].user}
                 /\ Matches(PreCountsOf(call[c].msg), pre.reactions, call[c].msg)
                      => UsersOf(CountsOf(call[c].msg), call[c].emoji)
                           = UsersOf(PreCountsOf(call[c].msg), call[c].emoji) \ {call[c].user}

\* a removeReaction that deleted the caller's row while another user holds
\* a row for the same emoji and the caller one for another emoji
C28_Witness ==
  \E c \in Calls :
    /\ Returned(c, "removeReaction") /\ call[c].result = Ok /\ call[c].faulted = ""
    /\ HadRow(c) /\ ~HasRow(c)
    /\ Holders(reactions, call[c].msg, call[c].emoji) # {}
    /\ UsersOf(CountsOf(call[c].msg), call[c].emoji)
         = Holders(reactions, call[c].msg, call[c].emoji)
    /\ \E e \in Emojis \ {call[c].emoji} : call[c].user \in Holders(reactions, call[c].msg, e)

\* a step that sets or changes the presence record of channel ch of this client
Published(ch) ==
  /\ <<"local", ch>> \in DOMAIN presence'
  /\ <<"local", ch>> \in DOMAIN presence => presence'[<<"local", ch>>] # presence[<<"local", ch>>]

\* the service has a userId and its map holds the typing channel of cv
CanSendTyping(cv) == userId # 0 /\ TypingChannel(cv) \in DOMAIN channels

\* a record is published only with a userId, on the channel that the map
\* holds for the record's conversation
PublishedBySendTyping ==
  \A ch \in 1..MaxChannels :
    Published(ch)
      => /\ CanSendTyping(presence'[<<"local", ch>>].conv)
         /\ channels[TypingChannel(presence'[<<"local", ch>>].conv)] = ch
         /\ presence'[<<"local", ch>>].userId = userId

\* a sendTyping call without a userId or without the channel changes nothing
RefusedSendTyping ==
  (typingCall' # typingCall /\ ~CanSendTyping(typingCall'))
    => UNCHANGED <<channels, client, presence, unsynced, heard, userId>>

\* C29: a presence record of this client is published only by a service
\* that has a userId, on the typing channel that its map holds for the
\* record's conversation; a sendTyping call without a userId or without
\* such a channel leaves the map, the channels and the presence state as
\* they were.
C29_SendTypingOnlyWhenSubscribed == [][PublishedBySendTyping /\ RefusedSendTyping]_vars

\* the record of one conversation is published while the last sendTyping
\* call was for a conversation whose typing channel the map does not hold
C29_Witness ==
  /\ typingCall # 0 /\ TypingChannel(typingCall) \notin DOMAIN channels
  /\ \E ch \in DOMAIN client :
       /\ <<"local", ch>> \in DOMAIN presence
       /\ presence[<<"local", ch>>].conv # typingCall
       /\ presence[<<"local", ch>>].userId = userId

\* a step of subscribeToMessages or unsubscribe that changes the map
\* (unsubscribeAll and cleanup change the map only when channels were made
\* since the map was last cleared, and then they change cleared)
OneKeyStep == channels' # channels /\ cleared' = cleared

\* the entry of every name but n, and its channel in the client, stay
OthersKept(n) ==
  /\ DOMAIN channels' \subseteq DOMAIN channels \cup {n}
  /\ \A k \in DOMAIN channels \ {n} :
       /\ k \in DOMAIN channels' /\ channels'[k] = channels[k]
       /\ client'[channels[k]] = client[channels[k]]

\* the step removes channel ch from the client
Closes(ch) ==
  ch \in DOMAIN client /\ client[ch].state # "closed" /\ client'[ch].state = "closed"

\* C30: a subscribe or unsubscribe step changes the map entry and the
\* client channel of one name only, and a channel is removed from the
\* client only when the map holds it under its name, so that unsubscribe
\* of a name that is not in the map changes nothing.
C30_OtherKeysUntouched ==
  [][/\ OneKeyStep => \E n \in ChannelNames : OthersKept(n)
     /\ \A ch \in 1..MaxChannels :
          Closes(ch) => /\ client[ch].name \in DOMAIN channels
                        /\ channels[client[ch].name] = ch
                        /\ client[ch].name \notin DOMAIN channels' \/ channels'[client[ch].name] # ch]_vars

\* the channel of one name is joined and in the map while a channel of
\* another name, subscribed after it, has been unsubscribed
C30_Witness ==
  \E k \in DOMAIN channels, ch \in DOMAIN client :
    /\ client[channels[k]].state = "joined"
    /\ ch > channels[k]
    /\ client[ch].name # k /\ client[ch].state = "closed"
    /\ client[ch].name \notin DOMAIN channels

====
